---- MODULE Spec2Model ----
(***************************************************************************)
(* A model of the intake / triage engine of medgemma-triage:               *)
(*   src/src/agents/intake.py        the interview state machine,          *)
(*                                   its parser and its accumulator        *)
(*   src/src/agents/triage.py        the model-backed classifier           *)
(*   src/src/agents/image_reader.py  the image analysis agent              *)
(*                                                                         *)
(* Python values are tagged records [t |-> tag, v |-> payload]:            *)
(*   None -> [t |-> "null"],  str -> [t |-> "str", v |-> <<atoms>>],       *)
(*   int/float -> "num" (tenths, so 0.7 is 7),  bool -> "bool",            *)
(*   list -> "list" (a sequence of values), dict -> "dict" (a function     *)
(*   from key strings to values).  A str is a sequence of atoms (words     *)
(*   and punctuation marks), so the empty string is <<>>.                  *)
(***************************************************************************)
EXTENDS Integers, Sequences, FiniteSets, TLC

VARIABLES
    state,      \* the IntakeState the caller holds
    before,     \* the argument of the last process_answer call, before the call
    after,      \* that same object as it is once the call has ended
    outcome,    \* how the last call ended: "none", "returned" or the error raised
    calls,      \* collaborator invocations made by the last call
    raw,        \* the text the collaborator returned in the last call
    nCalls,     \* process_answer calls made so far in this run
    mPrev,      \* accumulator: the record before the last merge
    mInc,       \* accumulator: the incoming record of the last merge
    mAcc,       \* accumulator: the running record
    mSteps,     \* accumulator: merges done so far
    pRaw,       \* parsers: the raw text under test
    pOut,       \* parsers: what the last parser / operation produced
    pOp,        \* parsers: which operation produced pOut
    rA,         \* regrouping: the records of three consecutive turns
    rB,
    rC,
    rLeft,      \* regrouping: merge(merge(rA, rB), rC)
    rRight,     \* regrouping: merge(rA, merge(rB, rC))
    rDone,      \* regrouping: whether both have been computed
    kPatient,   \* deterministic classifier: the PatientData classified
    kTwin,      \* a PatientData with the same complaint, pain scale and vitals
    kOut,       \* what mock_classify produced for kPatient
    kTwinOut,   \* what mock_classify produced for kTwin
    kDone,      \* whether both have been classified
    kSignals,   \* the keyword colour, the colour after the pain override and the
                \* vital sign upgrade mock_classify computed for kPatient
    gInput,     \* pipeline: the arguments of run_pipeline
    gState,     \* the PipelineState of the graph, a dict
    gNode,      \* the node the graph executes next
    gLog,       \* the nodes executed so far, with what each received and how it ended
    gCalls,     \* the collaborators invoked so far
    gOutcome,   \* how run_pipeline ended
    gModel      \* the calls of the text-generation collaborator: the node that
                \* made each, and whether it answered

vars == <<state, before, after, outcome, calls, raw, nCalls,
          mPrev, mInc, mAcc, mSteps, pRaw, pOut, pOp,
          rA, rB, rC, rLeft, rRight, rDone,
          kPatient, kTwin, kOut, kTwinOut, kDone, kSignals,
          gInput, gState, gNode, gLog, gCalls, gOutcome, gModel>>

intakeVars == <<state, before, after, outcome, calls, raw, nCalls>>
mergeVars == <<mPrev, mInc, mAcc, mSteps>>
parseVars == <<pRaw, pOut, pOp>>
regroupVars == <<rA, rB, rC, rLeft, rRight, rDone>>
mockVars == <<kPatient, kTwin, kOut, kTwinOut, kDone, kSignals>>
\* the variables of the other parts of the model
pipelineVars == <<gInput, gState, gNode, gLog, gCalls, gOutcome, gModel>>
extraVars == <<regroupVars, mockVars, pipelineVars>>

-----------------------------------------------------------------------------
(* Python values *)

Null == [t |-> "null"]
Str(s) == [t |-> "str", v |-> s]
Num(n) == [t |-> "num", v |-> n]
Bool(b) == [t |-> "bool", v |-> b]
List(s) == [t |-> "list", v |-> s]
Dict(d) == [t |-> "dict", v |-> d]

EmptyDict == [x \in {} |-> Null]

\* d[key] = val on a dict d
Put(d, key, val) == [x \in DOMAIN d \cup {key} |-> IF x = key THEN val ELSE d[x]]

\* d.get(key): None when the key is missing
Get(d, key) == IF key \in DOMAIN d THEN d[key] ELSE Null

\* d.get(key, default)
GetOr(d, key, default) == IF key \in DOMAIN d THEN d[key] ELSE default

\* bool(v): Python's truth value
Truthy(val) ==
    CASE val.t = "null" -> FALSE
      [] val.t = "bool" -> val.v
      [] val.t = "num"  -> val.v # 0
      [] val.t = "str"  -> val.v # <<>>
      [] val.t = "list" -> val.v # <<>>
      [] val.t = "dict" -> DOMAIN val.v # {}

-----------------------------------------------------------------------------
(* The turn accumulator *)

\* merged = {} instead of merged = dict(previous)
MergeStartsEmpty(previous, new_data) ==
    [k \in {x \in DOMAIN new_data :
                /\ new_data[x].t # "null"
                /\ new_data[x].t = "dict" =>
                       \E f \in DOMAIN new_data[x].v : new_data[x].v[f].t # "null"}
        |-> new_data[k]]

\* every non-null incoming value overwrites, an empty list included
MergeOverwritesLists(previous, new_data) ==
    [k \in DOMAIN previous \cup {x \in DOMAIN new_data : new_data[x].t # "null"} |->
        IF k \in DOMAIN new_data /\ new_data[k].t # "null"
        THEN new_data[k] ELSE previous[k]]

\* merged = dict(previous); merged.update(new_data): nulls are copied too
MergeCopiesNulls(previous, new_data) ==
    [k \in DOMAIN previous \cup DOMAIN new_data |->
        IF k \in DOMAIN new_data THEN new_data[k] ELSE previous[k]]

\* a nested dict is assigned like any other value: merged[key] = value
MergeReplacesNested(previous, new_data) ==
    LET assigned(key) ==
            LET value == new_data[key] IN
            CASE value.t = "null" -> FALSE
              [] value.t = "list" /\ value.v = <<>> ->
                    ~(key \in DOMAIN previous /\ previous[key].t = "list"
                                              /\ previous[key].v # <<>>)
              [] OTHER -> TRUE
    IN  [k \in DOMAIN previous \cup {x \in DOMAIN new_data : assigned(x)} |->
            IF k \in DOMAIN new_data /\ assigned(k) THEN new_data[k] ELSE previous[k]]

RECURSIVE merge_extracted_data(_, _)
merge_extracted_data(previous, new_data) ==
    LET \* the keys of new_data whose turn of the loop assigns merged[key]
        assigned(key) ==
            LET value == new_data[key] IN
            CASE value.t = "null" -> FALSE
              [] value.t = "list" /\ value.v = <<>> ->
                    ~(key \in DOMAIN previous /\ previous[key].t = "list"
                                              /\ previous[key].v # <<>>)
              [] value.t = "dict" ->
                    \/ (key \in DOMAIN previous /\ previous[key].t = "dict")
                    \/ \E f \in DOMAIN value.v : value.v[f].t # "null"
              [] OTHER -> TRUE
        newValue(key) ==
            LET value == new_data[key] IN
            IF value.t = "dict" /\ key \in DOMAIN previous /\ previous[key].t = "dict"
            THEN Dict(merge_extracted_data(previous[key].v, value.v))
            ELSE value
    IN  [k \in DOMAIN previous \cup {x \in DOMAIN new_data : assigned(x)} |->
            IF k \in DOMAIN new_data /\ assigned(k) THEN newValue(k) ELSE previous[k]]

-----------------------------------------------------------------------------
(* Raw model text.  A text is a sequence of tokens:                         *)
(*   LB, RB          a "{" and a "}" outside any string literal             *)
(*   W(a)            one atom of prose: a word or a punctuation mark        *)
(*   KV(key, val)    a member  "key": val  whose value is a scalar or list  *)
(*   KEY(key)        "key":  in front of a nested object                    *)
(* A string literal is one token, but the braces in it are still seen by    *)
(* the brace counter, which works on characters.                            *)

LB == [k |-> "lb"]
RB == [k |-> "rb"]
W(a) == [k |-> "w", s |-> a]
KV(key, val) == [k |-> "kv", key |-> key, val |-> val]
KEY(key) == [k |-> "key", key |-> key]
\* what is left of a token when raw[start : i + 1] ends inside it
CUT == [k |-> "cut"]

RECURSIVE Concat(_)
Concat(seqs) == IF seqs = <<>> THEN <<>> ELSE Head(seqs) \o Concat(Tail(seqs))

\* str(n) for the numbers of the model (tenths)
Digits(n) == ToString(n)

\* the atoms of a value as they stand in the text, in document order
RECURSIVE ValueAtoms(_)
ValueAtoms(val) ==
    CASE val.t = "null" -> <<"null">>
      [] val.t = "bool" -> IF val.v THEN <<"true">> ELSE <<"false">>
      [] val.t = "num"  -> <<Digits(val.v)>>
      [] val.t = "str"  -> val.v
      [] val.t = "list" -> Concat([i \in 1..Len(val.v) |-> ValueAtoms(val.v[i])])

\* the atoms of a token
TokenAtoms(tk) ==
    CASE tk.k = "lb"  -> <<"{">>
      [] tk.k = "rb"  -> <<"}">>
      [] tk.k = "w"   -> <<tk.s>>
      [] tk.k = "kv"  -> <<tk.key>> \o ValueAtoms(tk.val)
      [] tk.k = "key" -> <<tk.key>>
      [] OTHER        -> <<>>

\* the text as its atoms
Atoms(text) == Concat([i \in 1..Len(text) |-> TokenAtoms(text[i])])

\* the brace characters of a token, in order: 1 for "{", -1 for "}"
BraceEvents(tk) ==
    LET atoms == TokenAtoms(tk)
        marks == [i \in 1..Len(atoms) |->
                    IF atoms[i] = "{" THEN <<1>> ELSE IF atoms[i] = "}" THEN <<-1>> ELSE <<>>]
    IN  Concat(marks)

\* depth after the characters of tokens text[from..i], or 0 as soon as it was 0
\* at the end of a brace character (the loop breaks there)
RECURSIVE SumSeq(_)
SumSeq(s) == IF s = <<>> THEN 0 ELSE Head(s) + SumSeq(Tail(s))

\* whether the running depth, entering a token at depth d, is 0 after one of
\* its characters
RECURSIVE HitsZero(_, _)
HitsZero(d, events) ==
    IF events = <<>> THEN FALSE
    ELSE d + Head(events) = 0 \/ HitsZero(d + Head(events), Tail(events))

\* start = raw.find("{"): the first token holding a "{", 0 for -1
FindBrace(text) ==
    LET hits == {i \in 1..Len(text) : \E j \in 1..Len(BraceEvents(text[i])) :
                                            BraceEvents(text[i])[j] = 1}
    IN  IF hits = {} THEN 0 ELSE CHOOSE i \in hits : \A j \in hits : i <= j

\* The brace-counting loop: the tokens of raw[start : i + 1] where depth first
\* returns to 0, <<>> when it never does (json_str stays None).  A slice that
\* starts or ends inside a string literal keeps a CUT token in its place.
RECURSIVE ScanFrom(_, _, _, _)
ScanFrom(text, start, i, depth) ==
    IF i > Len(text) THEN <<>>
    ELSE LET ev == BraceEvents(text[i]) IN
         IF HitsZero(depth, ev)
         THEN IF text[i].k = "rb"
              THEN SubSeq(text, start, i)
              ELSE SubSeq(text, start, i - 1) \o <<CUT>>
         ELSE ScanFrom(text, start, i + 1, depth + SumSeq(ev))

ExtractJson(text) ==
    LET start == FindBrace(text) IN
    IF start = 0 THEN <<>>
    ELSE IF text[start].k = "lb"
         THEN ScanFrom(text, start, start, 0)
         ELSE <<CUT>>

\* json.loads on a slice that begins with "{": the dict, or a failure
\* (JSONDecodeError).  Members are read left to right, a repeated key keeps
\* its last value.
JsonFail == [ok |-> FALSE, val |-> EmptyDict, next |-> 0]

RECURSIVE ParseMembers(_, _, _)
ParseMembers(toks, i, acc) ==
    IF i > Len(toks) THEN JsonFail
    ELSE LET tk == toks[i] IN
         CASE tk.k = "rb" -> [ok |-> TRUE, val |-> acc, next |-> i + 1]
           [] tk.k = "kv" -> ParseMembers(toks, i + 1, Put(acc, tk.key, tk.val))
           [] tk.k = "key" ->
                IF i + 1 <= Len(toks) /\ toks[i + 1].k = "lb"
                THEN LET inner == ParseMembers(toks, i + 2, EmptyDict) IN
                     IF inner.ok
                     THEN ParseMembers(toks, inner.next, Put(acc, tk.key, Dict(inner.val)))
                     ELSE JsonFail
                ELSE JsonFail
           [] OTHER -> JsonFail

json_loads(toks) ==
    IF toks = <<>> \/ toks[1].k # "lb" THEN JsonFail
    ELSE LET r == ParseMembers(toks, 2, EmptyDict) IN
         IF r.ok /\ r.next = Len(toks) + 1 THEN r ELSE JsonFail

-----------------------------------------------------------------------------
(* The intake parser *)

\* re.search(r"[^.!?\n]*\?", raw): the atoms from the end of the previous
\* sentence up to the first "?", <<>> when the text holds no "?"
QuestionMatch(text) ==
    LET atoms == Atoms(text)
        marks == {i \in 1..Len(atoms) : atoms[i] = "?"}
    IN  IF marks = {} THEN <<>>
        ELSE LET q == CHOOSE i \in marks : \A j \in marks : i <= j
                 stops == {i \in 1..(q - 1) : atoms[i] \in {".", "!", "\n"}}
                 from == IF stops = {} THEN 1
                         ELSE 1 + CHOOSE i \in stops : \A j \in stops : j <= i
             IN  SubSeq(atoms, from, q)

IntakeDefault ==
    [next_question |-> Null, extracted_data |-> Dict(EmptyDict),
     is_complete |-> FALSE, clinical_notes |-> Null]

\* json_str = _extract_json(raw); if json_str: json.loads(json_str) -- the
\* object loaded, or a failure when no text is extracted or it does not load
LoadJson(text) == json_loads(ExtractJson(text))

\* the tiers of _parse_intake_response, given what the first two found
IntakeTiers(loaded, question) ==
    IF loaded.ok
    THEN \* Tier 1
         [next_question |-> Get(loaded.val, "next_question"),
          extracted_data |-> GetOr(loaded.val, "extracted_data", Dict(EmptyDict)),
          is_complete |-> Truthy(GetOr(loaded.val, "is_complete", Bool(FALSE))),
          clinical_notes |-> Get(loaded.val, "clinical_notes")]
    ELSE IF question # <<>>
    THEN \* Tier 2
         [next_question |-> Str(question), extracted_data |-> Dict(EmptyDict),
          is_complete |-> FALSE, clinical_notes |-> Null]
    ELSE \* Tier 3
         IntakeDefault

parse_intake_response(text) == IntakeTiers(LoadJson(text), QuestionMatch(text))

-----------------------------------------------------------------------------
(* The intake state machine *)

MAX_TURNS == 15

FirstQuestion == Str(<<"Ola, eu sou o assistente de triagem.", "Qual e o motivo da sua visita hoje", "?">>)
ClosingQuestion == Str(<<"Ha algo mais que gostaria de informar", "?">>)

FALLBACK_QUESTIONS ==
    << <<"chief_complaint", Str(<<"Qual e o motivo da sua visita hoje", "?">>)>>,
       <<"symptoms", Str(<<"Voce tem outros sintomas alem da queixa principal", "?">>)>>,
       <<"onset", Str(<<"Quando esses sintomas comecaram", "?">>)>>,
       <<"pain_scale", Str(<<"De 0 a 10, qual e o nivel da sua dor", "?">>)>>,
       <<"history", Str(<<"Voce tem alguma doenca ou ja fez alguma cirurgia", "?">>)>>,
       <<"medications", Str(<<"Esta tomando algum medicamento", "?">>)>>,
       <<"allergies", Str(<<"Tem alergia a algum medicamento ou substancia", "?">>)>> >>

next_fallback_question(data) ==
    LET missing == {i \in 1..Len(FALLBACK_QUESTIONS) :
                        LET field == FALLBACK_QUESTIONS[i][1] IN
                        field \notin DOMAIN data \/ data[field].t = "null"}
    IN  IF missing = {} THEN ClosingQuestion
        ELSE FALLBACK_QUESTIONS[CHOOSE i \in missing : \A j \in missing : i <= j][2]

DesiredFields == {"symptoms", "onset", "pain_scale", "history", "medications", "allergies"}

\* the chief complaint is not required
SufficientWithoutComplaint(data) ==
    Cardinality({f \in DesiredFields :
                    /\ Get(data, f).t # "null"
                    /\ ~(Get(data, f).t = "list" /\ Get(data, f).v = <<>>)}) >= 3

is_data_sufficient(data) ==
    IF ~Truthy(Get(data, "chief_complaint")) THEN FALSE
    ELSE LET filled == Cardinality({f \in DesiredFields :
                            /\ Get(data, f).t # "null"
                            /\ ~(Get(data, f).t = "list" /\ Get(data, f).v = <<>>)})
         IN  filled >= 3

\* every turn is recorded as the agent's
AgentTurnOnly(role, content) == [role |-> "agent", content |-> content]

ConversationTurn(role, content) == [role |-> role, content |-> content]

IntakeState(status, conversation, extracted, pending_question, turn_count, raw_response) ==
    [status |-> status, conversation |-> conversation, extracted |-> extracted,
     pending_question |-> pending_question, turn_count |-> turn_count,
     raw_extraction_response |-> raw_response]

start_interview ==
    IntakeState("IN_PROGRESS", <<ConversationTurn("agent", FirstQuestion)>>,
                EmptyDict, FirstQuestion, 0, Null)

\* str(v) as an f-string renders it, atom by atom
RECURSIVE PyStr(_)
PyStr(val) ==
    CASE val.t = "null" -> <<"None">>
      [] val.t = "bool" -> IF val.v THEN <<"True">> ELSE <<"False">>
      [] val.t = "num"  -> <<Digits(val.v)>>
      [] val.t = "str"  -> val.v
      [] val.t = "list" ->
            <<"[">> \o Concat([i \in 1..Len(val.v) |-> PyStr(val.v[i])]) \o <<"]">>
      [] val.t = "dict" -> <<"{", "}">>

\* the raw text as the value of a str field
Text(toks) == [t |-> "text", v |-> toks]

\* conversation = state.conversation; conversation.append(...): no copy is made
AppendPatientTurnInPlace(st, answer) ==
    LET conversation == Append(st.conversation, ConversationTurn("patient", answer))
    IN  [conversation |-> conversation,
         input |-> [st EXCEPT !.conversation = conversation]]

\* conversation = list(state.conversation); conversation.append(patient turn):
\* the local list, and the argument object as the two statements leave it
AppendPatientTurn(st, answer) ==
    [conversation |-> Append(st.conversation, ConversationTurn("patient", answer)),
     input |-> st]

\* the completion test of process_answer
IsComplete(model_says_complete, data_sufficient, turn_count) ==
    (model_says_complete /\ data_sufficient) \/ turn_count >= MAX_TURNS

\* extracted["clinical_notes"] after the clinical-notes step
WithClinicalNotes(extracted, new_notes) ==
    IF Truthy(new_notes)
    THEN LET notes == GetOr(extracted, "clinical_notes", Str(<<>>)) IN
         IF Truthy(notes)
         THEN Put(extracted, "clinical_notes",
                  Str(PyStr(notes) \o <<";">> \o PyStr(new_notes)))
         ELSE Put(extracted, "clinical_notes", new_notes)
    ELSE extracted

\* a collaborator call that returned `text`, and one that raised
Returned(text) == [ok |-> TRUE, text |-> text]
Raised == [ok |-> FALSE, text |-> <<>>]

Ended(kind, st, n, input) == [outcome |-> kind, result |-> st, calls |-> n, input |-> input]

\* only an aborted interview is refused
RejectsAbortedOnly(st) == st.status = "ABORTED"

\* if state.status != IntakeStatus.IN_PROGRESS: raise ValueError
Rejects(st) == st.status # "IN_PROGRESS"

\* merged = previous: the accumulator works on the caller's dict
MergedAlias(previous) == [value |-> previous, same_object |-> TRUE]

\* merged = dict(previous): the accumulator works on a new dict
MergedDict(previous) == [value |-> previous, same_object |-> FALSE]

\* the argument object once `extracted` has been assigned to: it changes only
\* when `extracted` is the dict the argument holds
InputLeft(input, extracted) ==
    IF MergedDict(input.extracted).same_object
    THEN [input EXCEPT !.extracted = extracted]
    ELSE input

\* the rest of process_answer once the reply is parsed and merged: next
\* question, completion test, clinical notes and the state returned
ConcludeTurn(st, appended, turn_count, parsed, raw_text, extracted, next_question, complete) ==
    IF ~complete /\ next_question.t # "str"
    THEN \* ConversationTurn(content=...) validates a str
         Ended("ValidationError", st, 1, InputLeft(appended.input, extracted))
    ELSE Ended("returned",
               IntakeState(
                 IF complete THEN "COMPLETE" ELSE "IN_PROGRESS",
                 IF complete THEN appended.conversation
                 ELSE Append(appended.conversation,
                             ConversationTurn("agent", next_question)),
                 WithClinicalNotes(extracted, parsed.clinical_notes),
                 IF complete THEN Null ELSE next_question,
                 turn_count,
                 Text(raw_text)),
               1, InputLeft(appended.input,
                            WithClinicalNotes(extracted, parsed.clinical_notes)))

\* process_answer from the merge on, `extracted` being the merged record
AfterMerge(st, appended, turn_count, parsed, raw_text, extracted) ==
    ConcludeTurn(st, appended, turn_count, parsed, raw_text, extracted,
                 IF Truthy(parsed.next_question) THEN parsed.next_question
                 ELSE next_fallback_question(extracted),
                 IsComplete(parsed.is_complete, is_data_sufficient(extracted), turn_count))

\* process_answer from the parse on, `parsed` being the parsed reply
AfterParse(st, appended, turn_count, parsed, raw_text) ==
    IF parsed.extracted_data.t # "dict"
    THEN \* new_data.items() on None, a list or a str
         Ended("AttributeError", st, 1, appended.input)
    ELSE AfterMerge(st, appended, turn_count, parsed, raw_text,
                    merge_extracted_data(st.extracted, parsed.extracted_data.v))

\* process_answer(state, answer) when the collaborator answers `reply`:
\* how the call ends, the state it returns, the collaborator calls it made
\* and the argument object as the call leaves it
process_answer(st, answer, reply) ==
    IF Rejects(st)
    THEN Ended("ValueError", st, 0, st)
    ELSE IF ~reply.ok
    THEN Ended("APIError", st, 1, AppendPatientTurn(st, answer).input)
    ELSE AfterParse(st, AppendPatientTurn(st, answer), st.turn_count + 1,
                    parse_intake_response(reply.text), reply.text)

-----------------------------------------------------------------------------
(* Extraction records the accumulator is exercised on: every combination of *)
(* a value, or no entry, for three keys.                                    *)

Dor == Str(<<"Dor">>)
Febre == Str(<<"febre">>)
Tosse == Str(<<"tosse">>)
BP == Str(<<"120/80">>)

Absent == [t |-> "absent"]

ComplaintValues == {Absent, Null, Str(<<>>), Dor}
SymptomValues == {Absent, Null, List(<<>>), List(<<Febre, Tosse>>)}
VitalValues ==
    {Absent, Null, Febre, Dict(EmptyDict),
     Dict([heart_rate |-> Null]),
     Dict([heart_rate |-> Num(800), blood_pressure |-> Null]),
     Dict([heart_rate |-> Null, blood_pressure |-> BP])}

\* the dict holding the entries of r that are not Absent
Record(r) == [k \in {x \in DOMAIN r : r[x] # Absent} |-> r[k]]

MergeRecords ==
    {Record([chief_complaint |-> c, symptoms |-> s, vital_signs |-> vs]) :
        c \in ComplaintValues, s \in SymptomValues, vs \in VitalValues}

MaxFold == 2

InitMerge ==
    /\ mAcc \in MergeRecords
    /\ mPrev = mAcc
    /\ mInc = EmptyDict
    /\ mSteps = 0

\* one turn of the fold: extracted = _merge_extracted_data(state.extracted, new)
MergeStep ==
    /\ mSteps < MaxFold
    /\ \E inc \in MergeRecords :
          /\ mPrev' = mAcc
          /\ mInc' = inc
          /\ mAcc' = merge_extracted_data(mAcc, inc)
    /\ mSteps' = mSteps + 1

-----------------------------------------------------------------------------
(* The enum-based parsers: triage colour and image severity *)

TriageColor == {"RED", "ORANGE", "YELLOW", "GREEN", "BLUE"}
ImageSeverity == {"CRITICAL", "SEVERE", "MODERATE", "MILD", "NORMAL"}

\* TRIAGE_LEVELS: colour -> (level name, max wait in minutes)
TRIAGE_LEVELS ==
    [c \in TriageColor |->
        CASE c = "RED"    -> <<"Emergencia", 0>>
          [] c = "ORANGE" -> <<"Muito urgente", 10>>
          [] c = "YELLOW" -> <<"Urgente", 60>>
          [] c = "GREEN"  -> <<"Pouco urgente", 120>>
          [] c = "BLUE"   -> <<"Nao urgente", 240>>]

\* str.upper() on the atoms the texts of the model are made of
Upper(a) ==
    CASE a \in {"red", "Red"}         -> "RED"
      [] a \in {"orange", "Orange"}   -> "ORANGE"
      [] a \in {"yellow", "Yellow"}   -> "YELLOW"
      [] a \in {"green", "Green"}     -> "GREEN"
      [] a \in {"blue", "Blue"}       -> "BLUE"
      [] a \in {"critical"}           -> "CRITICAL"
      [] a \in {"severe", "Severe"}   -> "SEVERE"
      [] a \in {"moderate"}           -> "MODERATE"
      [] a \in {"mild", "Mild"}       -> "MILD"
      [] a \in {"normal"}             -> "NORMAL"
      [] OTHER                        -> a

\* str(value).upper().strip() when it is one word, "" otherwise (several
\* words are never a member of the enumeration)
EnumWord(val) ==
    LET atoms == PyStr(val) IN
    IF Len(atoms) = 1 THEN Upper(atoms[1]) ELSE ""

\* the numerals that occur as strings in the texts of the model, in tenths
Numerals == [a \in {"0.9", "2"} |-> IF a = "0.9" THEN 9 ELSE 20]

\* float(value): the number in tenths, or the ValueError / TypeError raised
Float(val) ==
    CASE val.t = "num"  -> [ok |-> TRUE, val |-> val.v]
      [] val.t = "bool" -> [ok |-> TRUE, val |-> IF val.v THEN 10 ELSE 0]
      [] val.t = "str"  ->
            IF Len(val.v) = 1 /\ val.v[1] \in DOMAIN Numerals
            THEN [ok |-> TRUE, val |-> Numerals[val.v[1]]]
            ELSE [ok |-> FALSE, val |-> 0]
      [] OTHER -> [ok |-> FALSE, val |-> 0]

\* the value is passed through as the model gave it
Unclamped(x) == x

\* max(0.0, min(1.0, x)), in tenths
Clamp(x) == IF x > 10 THEN 10 ELSE IF x < 0 THEN 0 ELSE x

\* the members of both enumerations, most severe first
SeverityOrder ==
    <<"RED", "ORANGE", "YELLOW", "GREEN", "BLUE",
      "CRITICAL", "SEVERE", "MODERATE", "MILD", "NORMAL">>

\* the most severe member of `enum` named in the text wins
MostSevereEnumToken(text, enum) ==
    LET atoms == Atoms(text)
        named == {i \in 1..Len(SeverityOrder) :
                     /\ SeverityOrder[i] \in enum
                     /\ \E j \in 1..Len(atoms) : Upper(atoms[j]) = SeverityOrder[i]}
    IN  IF named = {} THEN ""
        ELSE SeverityOrder[CHOOSE i \in named : \A j \in named : i <= j]

\* re.search(r"\b(A|B|...)\b", raw.upper()): the first atom of the text, in
\* document order, whose upper case is a member of `enum`; "" when none is
FirstEnumToken(text, enum) ==
    LET atoms == Atoms(text)
        hits == {i \in 1..Len(atoms) : Upper(atoms[i]) \in enum}
    IN  IF hits = {} THEN ""
        ELSE Upper(atoms[CHOOSE i \in hits : \A j \in hits : i <= j])

\* raw[:500]; the texts of the model are shorter than 500 characters
Raw500(text) == Str(Atoms(text))

NoResult == [ok |-> FALSE, val |-> Null]

\* Tier 1 of _parse_triage_response once color_str and confidence are computed
TriageStructured(parsed, color_str, confidence) ==
    IF color_str \in TriageColor /\ confidence.ok
    THEN [ok |-> TRUE,
          val |-> [triage_color |-> color_str,
                   reasoning |-> Str(PyStr(GetOr(parsed, "reasoning", Str(<<>>)))),
                   key_discriminators |-> GetOr(parsed, "key_discriminators", List(<<>>)),
                   confidence |-> Clamp(confidence.val),
                   parse_failed |-> FALSE]]
    ELSE NoResult

\* Tier 1 of _parse_triage_response on the loaded object
TriageLoaded(loaded) ==
    IF ~loaded.ok THEN NoResult
    ELSE TriageStructured(loaded.val,
                          EnumWord(GetOr(loaded.val, "triage_color", Str(<<>>))),
                          Float(GetOr(loaded.val, "confidence", Num(7))))

\* Tier 1 of _parse_triage_response
TriageTier1(text) == TriageLoaded(LoadJson(text))

\* Tier 2 of _parse_triage_response once the colour is searched for
TriageFromColor(color_str, text) ==
    IF color_str = "" THEN NoResult
    ELSE [ok |-> TRUE,
          val |-> [triage_color |-> color_str, reasoning |-> Raw500(text),
                   key_discriminators |-> List(<<>>), confidence |-> 5,
                   parse_failed |-> FALSE]]

\* Tier 2 of _parse_triage_response
TriageTier2(text) == TriageFromColor(FirstEnumToken(text, TriageColor), text)

\* the default is returned as an ordinary result
TriageDefaultUnflagged(text) ==
    [triage_color |-> "YELLOW", reasoning |-> Raw500(text),
     key_discriminators |-> List(<<>>), confidence |-> 3, parse_failed |-> FALSE]

\* Tier 3 of _parse_triage_response
TriageDefault(text) ==
    [triage_color |-> "YELLOW", reasoning |-> Raw500(text),
     key_discriminators |-> List(<<>>), confidence |-> 3, parse_failed |-> TRUE]

\* the first tier that produced a result, the default otherwise
FirstTier(tier1, tier2, default) ==
    IF tier1.ok THEN tier1.val
    ELSE IF tier2.ok THEN tier2.val
    ELSE default

parse_triage_response(text) ==
    FirstTier(TriageTier1(text), TriageTier2(text), TriageDefault(text))

\* Tier 1 of _parse_image_response once severity_str and confidence are computed
ImageStructured(parsed, severity_str, confidence) ==
    IF severity_str \in ImageSeverity /\ confidence.ok
    THEN [ok |-> TRUE,
          val |-> [modality |-> Str(PyStr(GetOr(parsed, "modality", Str(<<"unknown">>)))),
                   description |-> Str(PyStr(GetOr(parsed, "description", Str(<<>>)))),
                   suspected_conditions |->
                       GetOr(parsed, "suspected_conditions", List(<<>>)),
                   severity |-> severity_str,
                   key_observations |-> GetOr(parsed, "key_observations", List(<<>>)),
                   confidence |-> Clamp(confidence.val),
                   requires_specialist |->
                       Truthy(GetOr(parsed, "requires_specialist", Bool(FALSE))),
                   parse_failed |-> FALSE]]
    ELSE NoResult

\* Tier 1 of _parse_image_response on the loaded object
ImageLoaded(loaded) ==
    IF ~loaded.ok THEN NoResult
    ELSE ImageStructured(loaded.val,
                         EnumWord(GetOr(loaded.val, "severity", Str(<<>>))),
                         Float(GetOr(loaded.val, "confidence", Num(7))))

\* Tier 1 of _parse_image_response
ImageTier1(text) == ImageLoaded(LoadJson(text))

\* Tier 2 of _parse_image_response once the severity is searched for
ImageFromSeverity(severity_str, text) ==
    IF severity_str = "" THEN NoResult
    ELSE [ok |-> TRUE,
          val |-> [modality |-> Str(<<"unknown">>), description |-> Raw500(text),
                   suspected_conditions |-> List(<<>>), severity |-> severity_str,
                   key_observations |-> List(<<>>), confidence |-> 5,
                   requires_specialist |-> FALSE, parse_failed |-> FALSE]]

\* Tier 2 of _parse_image_response
ImageTier2(text) == ImageFromSeverity(FirstEnumToken(text, ImageSeverity), text)

\* Tier 3 of _parse_image_response
ImageDefault(text) ==
    [modality |-> Str(<<"unknown">>), description |-> Raw500(text),
     suspected_conditions |-> List(<<>>), severity |-> "MODERATE",
     key_observations |-> List(<<>>), confidence |-> 3,
     requires_specialist |-> FALSE, parse_failed |-> TRUE]

parse_image_response(text) ==
    FirstTier(ImageTier1(text), ImageTier2(text), ImageDefault(text))

-----------------------------------------------------------------------------
(* The model-backed operations *)

\* pydantic's check of a list[str] field
IsListOfStr(val) == val.t = "list" /\ \A i \in 1..Len(val.v) : val.v[i].t = "str"

TriageResult(color, level, wait, reasoning, discriminators, confidence, raw_response, failed) ==
    [triage_color |-> color, triage_level |-> level, max_wait_minutes |-> wait,
     reasoning |-> reasoning, key_discriminators |-> discriminators,
     confidence |-> confidence, raw_model_response |-> raw_response,
     parse_failed |-> failed]

ApiFailureReasoning == Str(<<"Model", "API", "call", "failed", "defaulting", "to", "YELLOW", "for", "safety", ".">>)

\* what the except branch of classify returns
ClassifyFallback ==
    TriageResult("YELLOW", "Urgente", 60, ApiFailureReasoning, List(<<>>), 0,
                 Text(<<>>), TRUE)

Finished(kind, value) == [outcome |-> kind, result |-> value]

\* except Exception: raise (the failure is passed on)
ClassifyApiFailureRaises == Finished("APIError", Null)

\* the except branch of classify: the fallback is returned, nothing is raised
ClassifyApiFailure == Finished("returned", ClassifyFallback)

\* the TriageResult classify builds from the parsed reply
ClassifyResult(parsed, raw_text) ==
    IF ~IsListOfStr(parsed.key_discriminators)
    THEN \* TriageResult(key_discriminators=...) validates a list[str]
         Finished("ValidationError", Null)
    ELSE Finished("returned",
                  TriageResult(parsed.triage_color,
                               TRIAGE_LEVELS[parsed.triage_color][1],
                               TRIAGE_LEVELS[parsed.triage_color][2],
                               parsed.reasoning, parsed.key_discriminators,
                               parsed.confidence, Text(raw_text),
                               parsed.parse_failed))

\* classify(patient) when the collaborator answers `reply`
classify(patient, reply) ==
    IF ~reply.ok THEN ClassifyApiFailure
    ELSE ClassifyResult(parse_triage_response(reply.text), reply.text)

\* the ImageFindings analyze builds from the parsed reply
AnalyzeResult(parsed, raw_text) ==
    IF ~IsListOfStr(parsed.suspected_conditions) \/ ~IsListOfStr(parsed.key_observations)
    THEN \* ImageFindings(...) validates two list[str] fields
         Finished("ValidationError", Null)
    ELSE Finished("returned",
                  [modality |-> parsed.modality, description |-> parsed.description,
                   suspected_conditions |-> parsed.suspected_conditions,
                   severity |-> parsed.severity,
                   key_observations |-> parsed.key_observations,
                   confidence |-> parsed.confidence,
                   requires_specialist |-> parsed.requires_specialist,
                   raw_model_response |-> Text(raw_text),
                   parse_failed |-> parsed.parse_failed])

\* analyze(image_bytes) when the collaborator answers `reply`: the collaborator
\* call is not guarded, its failure leaves analyze as it is
analyze(image_bytes, reply) ==
    IF ~reply.ok THEN Finished("APIError", Null)
    ELSE AnalyzeResult(parse_image_response(reply.text), reply.text)

-----------------------------------------------------------------------------
(* The interview, driven by a caller.  The caller starts from                *)
(* start_interview() or from an IntakeState it constructed, and calls        *)
(* process_answer on the state it holds; the collaborator answers with one   *)
(* of IntakeReplies or raises.                                               *)

Pain == Num(70)
Onset == Str(<<"2", "horas">>)
Pergunta == Str(<<"Pergunta", "?">>)
OndeDoi == Str(<<"Onde", "doi", "?">>)

Answers == {Dor, Str(<<"Sim">>)}

\* extracted_data objects the collaborator sends, as tokens
JOnlyComplaint == <<KEY("extracted_data"), LB, KV("chief_complaint", Dor), RB>>
JSufficient ==
    <<KEY("extracted_data"), LB, KV("chief_complaint", Dor),
      KV("symptoms", List(<<Febre>>)), KV("onset", Onset), KV("pain_scale", Pain), RB>>
JNoComplaint ==
    <<KEY("extracted_data"), LB, KV("chief_complaint", Null),
      KV("symptoms", List(<<Febre>>)), KV("onset", Onset), KV("pain_scale", Pain), RB>>
JEmptyOnset ==
    <<KEY("extracted_data"), LB, KV("chief_complaint", Dor),
      KV("symptoms", List(<<Febre>>)), KV("onset", Str(<<>>)), KV("pain_scale", Num(0)),
      KV("history", List(<<>>)), RB>>
JVitals ==
    <<KEY("extracted_data"), LB, KV("symptoms", List(<<>>)), KEY("vital_signs"), LB,
      KV("heart_rate", Num(1000)), KV("blood_pressure", Null), RB, RB>>

IntakeReplies ==
    { \* well-formed replies
      <<LB, KV("next_question", OndeDoi)>> \o JOnlyComplaint
          \o <<KV("is_complete", Bool(FALSE)), KV("clinical_notes", Str(<<"Red", "flag">>)), RB>>,
      <<LB, KV("next_question", Null)>> \o JOnlyComplaint
          \o <<KV("is_complete", Bool(TRUE)), KV("clinical_notes", Null), RB>>,
      <<LB, KV("next_question", Null)>> \o JSufficient
          \o <<KV("is_complete", Bool(TRUE)), RB>>,
      <<LB>> \o JNoComplaint \o <<KV("is_complete", Bool(TRUE)), RB>>,
      <<LB>> \o JEmptyOnset \o <<KV("is_complete", Str(<<"yes">>)), RB>>,
      \* prose around the object, a nested object in it
      <<W("Here"), W("it"), W("is"), W("."), LB, KV("next_question", Str(<<>>))>> \o JVitals
          \o <<RB, W("Done"), W("?")>>,
      \* no object at all
      <<W("Pode"), W("repetir"), W("?")>>,
      <<W("Cannot"), W("process"), W("this"), W(".")>>,
      \* broken objects
      <<LB, KV("next_question", OndeDoi)>>,
      <<LB, W("oops"), RB>>,
      <<LB, KV("clinical_notes", Str(<<"}", "x">>)), RB>>,
      \* objects whose fields have unexpected types
      <<LB, KV("extracted_data", Null), KV("is_complete", Bool(TRUE)), RB>>,
      <<LB, KV("next_question", Num(50)), RB>> }

ConstructedExtracted ==
    { EmptyDict,
      [chief_complaint |-> Dor],
      [chief_complaint |-> Dor, onset |-> Onset, pain_scale |-> Pain],
      [symptoms |-> List(<<Febre, Tosse>>), onset |-> Onset, pain_scale |-> Pain] }

\* the states a caller hands to process_answer
InitialStates ==
    {start_interview} \cup
    { IntakeState(status, <<ConversationTurn("agent", Pergunta)>>, ex, Pergunta, n, Null) :
        status \in {"IN_PROGRESS", "COMPLETE", "ABORTED"},
        ex \in ConstructedExtracted,
        n \in {1, MAX_TURNS - 2, MAX_TURNS - 1} }

MaxCalls == 2

IdleRegroup ==
    /\ rA = EmptyDict
    /\ rB = EmptyDict
    /\ rC = EmptyDict
    /\ rLeft = EmptyDict
    /\ rRight = EmptyDict
    /\ rDone = FALSE

IdleMock ==
    /\ kPatient = Null
    /\ kTwin = Null
    /\ kOut = Null
    /\ kTwinOut = Null
    /\ kDone = FALSE
    /\ kSignals = Null

IdlePipeline ==
    /\ gInput = Null
    /\ gState = EmptyDict
    /\ gNode = "idle"
    /\ gLog = <<>>
    /\ gCalls = <<>>
    /\ gOutcome = "none"
    /\ gModel = <<>>

\* the parts of the model added after the interview, the accumulator and the
\* parsers are not running
IdleExtra == IdleRegroup /\ IdleMock /\ IdlePipeline

IdleIntake ==
    /\ state = start_interview
    /\ before = start_interview
    /\ after = start_interview
    /\ outcome = "none"
    /\ calls = 0
    /\ raw = Raised
    /\ nCalls = 0

IdleMerge ==
    /\ mAcc = EmptyDict
    /\ mPrev = EmptyDict
    /\ mInc = EmptyDict
    /\ mSteps = 0

IdleParse ==
    /\ pRaw = <<>>
    /\ pOut = Null
    /\ pOp = "none"

Init ==
    /\ state \in InitialStates
    /\ before = state
    /\ after = state
    /\ outcome = "none"
    /\ calls = 0
    /\ raw = Raised
    /\ nCalls = 0
    /\ IdleMerge
    /\ IdleParse
    /\ IdleExtra

\* the caller answers the pending question: state = process_answer(state, answer).
\* When the call raises the caller is left with the object it passed.
ProcessAnswer ==
    /\ nCalls < MaxCalls
    /\ \E answer \in Answers :
       \E reply \in {Returned(text) : text \in IntakeReplies} \cup {Raised} :
          LET r == process_answer(state, answer, reply) IN
          /\ before' = state
          /\ after' = r.input
          /\ outcome' = r.outcome
          /\ calls' = r.calls
          /\ raw' = reply
          /\ state' = IF r.outcome = "returned" THEN r.result ELSE r.input
    /\ nCalls' = nCalls + 1
    /\ UNCHANGED <<mergeVars, parseVars, extraVars>>

Next == ProcessAnswer

Spec == Init /\ [][Next]_vars

-----------------------------------------------------------------------------
(* A whole interview: start_interview(), then the caller answers turn after *)
(* turn.                                                                    *)

\* what the patient answers
InterviewAnswers == {Str(<<"Sim">>)}

\* what the collaborator returns during an interview: a question (the one
\* about other symptoms) with a complaint and notes, a complete and
\* sufficient record, prose without an object or a question, and two objects
\* with a field of an unexpected type
InterviewReplies ==
    { <<LB, KV("next_question", FALLBACK_QUESTIONS[2][2])>> \o JOnlyComplaint
          \o <<KV("is_complete", Bool(FALSE)), KV("clinical_notes", Str(<<"Red", "flag">>)), RB>>,
      <<LB, KV("next_question", Null)>> \o JSufficient
          \o <<KV("is_complete", Bool(TRUE)), RB>>,
      <<W("Cannot"), W("process"), W("this"), W(".")>>,
      <<LB, KV("extracted_data", Null), KV("is_complete", Bool(TRUE)), RB>>,
      <<LB, KV("next_question", Num(50)), RB>> }

\* the calls of an interview are counted in a cycle of this length
MaxInterviewCalls == 3

InitInterview == IdleIntake /\ IdleMerge /\ IdleParse /\ IdleExtra

\* state = process_answer(state, answer) with the collaborator answering
\* `reply`; when the call raises the caller is left with the object it passed
CallProcessAnswer(ended, reply) ==
    /\ before' = state
    /\ after' = ended.input
    /\ outcome' = ended.outcome
    /\ calls' = ended.calls
    /\ raw' = reply
    /\ state' = IF ended.outcome = "returned" THEN ended.result ELSE ended.input
    /\ nCalls' = (nCalls % MaxInterviewCalls) + 1
    /\ UNCHANGED <<mergeVars, parseVars, extraVars>>

\* the caller answers and the collaborator returns a text
InterviewAnswered ==
    \E answer \in InterviewAnswers : \E text \in InterviewReplies :
        CallProcessAnswer(process_answer(state, answer, Returned(text)), Returned(text))

\* the caller answers and the collaborator raises
InterviewCollaboratorFails ==
    \E answer \in InterviewAnswers :
        CallProcessAnswer(process_answer(state, answer, Raised), Raised)

NextInterview ==
    \/ InterviewAnswered
    \/ InterviewCollaboratorFails

SpecInterview == InitInterview /\ [][NextInterview]_vars

\* a call in which the collaborator returned a text, told by the two
\* variables that record it
CollaboratorReturned ==
    /\ nCalls' = (nCalls % MaxInterviewCalls) + 1
    /\ raw' \in {Returned(text) : text \in InterviewReplies}

\* the caller keeps answering and the collaborator keeps returning a text:
\* a step of NextInterview that is a CollaboratorReturned step is a step of
\* InterviewAnswered, and one is possible in every state
SpecInterviewAnswered == SpecInterview /\ WF_nCalls(CollaboratorReturned)

InitAccumulate == InitMerge /\ IdleIntake /\ IdleParse /\ IdleExtra

NextAccumulate == MergeStep /\ UNCHANGED <<intakeVars, parseVars, extraVars>>

SpecAccumulate == InitAccumulate /\ [][NextAccumulate]_vars

-----------------------------------------------------------------------------
(* The parsers and the operations built on them, each applied to one raw    *)
(* text of the collaborator.                                                *)

Reasoning == Str(<<"Chest", "pain", ".">>)

TriageTexts ==
    { \* a well-formed answer
      <<LB, KV("triage_color", Str(<<"RED">>)), KV("reasoning", Reasoning),
        KV("key_discriminators", List(<<Dor>>)), KV("confidence", Num(9)), RB>>,
      \* prose and another colour around the object, lower-case colour, no confidence
      <<W("Maybe"), W("green"), W("?"), LB, KV("triage_color", Str(<<"orange">>)), RB,
        W("not"), W("BLUE")>>,
      \* confidence out of range, as a string, null
      <<LB, KV("triage_color", Str(<<"GREEN">>)), KV("confidence", Num(15)), RB>>,
      <<LB, KV("triage_color", Str(<<"GREEN">>)), KV("confidence", Num(-2)), RB>>,
      <<LB, KV("triage_color", Str(<<"BLUE">>)), KV("confidence", Str(<<"0.9">>)), RB>>,
      <<LB, KV("triage_color", Str(<<"RED">>)), KV("confidence", Null), RB>>,
      \* a valid colour with a confidence that is no number, after prose that
      \* names another colour
      <<W("Maybe"), W("green"), W("?"), LB, KV("triage_color", Str(<<"RED">>)),
        KV("confidence", Str(<<"high">>)), RB>>,
      \* a colour outside the enumeration, one named in the reasoning
      <<LB, KV("triage_color", Str(<<"PURPLE">>)), KV("reasoning", Str(<<"not", "red">>)), RB>>,
      <<LB, KV("triage_color", Null), RB>>,
      \* fields of an unexpected type
      <<LB, KV("triage_color", Str(<<"RED">>)), KV("key_discriminators", Null), RB>>,
      <<LB, KV("triage_color", Str(<<"YELLOW">>)), KV("reasoning", Null),
        KV("key_discriminators", List(<<Num(10)>>)), RB>>,
      \* no object
      <<W("I"), W("think"), W("yellow"), W("then"), W("RED"), W(".")>>,
      <<W("I"), W("cannot"), W("determine"), W("the"), W("level"), W(".")>>,
      <<>>,
      \* braces that never balance, a brace inside a string
      <<LB, KV("triage_color", Str(<<"RED">>))>>,
      <<LB, KV("triage_color", Str(<<"RED">>)), KV("reasoning", Str(<<"see", "}">>)), RB>>,
      <<LB, KV("reasoning", Str(<<"{">>)), RB>> }

ImageTexts ==
    { <<LB, KV("modality", Str(<<"X-ray">>)), KV("description", Reasoning),
        KV("suspected_conditions", List(<<Febre>>)), KV("severity", Str(<<"severe">>)),
        KV("key_observations", List(<<>>)), KV("confidence", Num(20)),
        KV("requires_specialist", Bool(TRUE)), RB>>,
      <<LB, KV("severity", Str(<<"MILD">>)), RB>>,
      <<LB, KV("severity", Str(<<"MILD">>)), KV("suspected_conditions", Null), RB>>,
      <<LB, KV("severity", Str(<<"NORMAL">>)), KV("key_observations", Febre), RB>>,
      <<LB, KV("severity", Str(<<"UNKNOWN">>)), RB>>,
      <<W("Looks"), W("mild"), W("not"), W("CRITICAL")>>,
      <<W("Normal"), W("?"), LB, KV("severity", Str(<<"critical">>)),
        KV("confidence", Null), RB>>,
      <<LB, KV("severity", Str(<<"Severe">>)), KV("confidence", Num(-5)), RB>> }

ParserTexts == TriageTexts \cup ImageTexts \cup IntakeReplies

Patients == {[chief_complaint |-> Dor], [chief_complaint |-> Febre]}

InitParse ==
    /\ pRaw \in ParserTexts
    /\ pOut = Null
    /\ pOp = "none"
    /\ IdleIntake
    /\ IdleMerge
    /\ IdleExtra

ParseIntake ==
    /\ pOut' = parse_intake_response(pRaw)
    /\ pOp' = "parse_intake"
    /\ UNCHANGED <<pRaw, intakeVars, mergeVars, extraVars>>

ParseTriage ==
    /\ pOut' = parse_triage_response(pRaw)
    /\ pOp' = "parse_triage"
    /\ UNCHANGED <<pRaw, intakeVars, mergeVars, extraVars>>

ParseImage ==
    /\ pOut' = parse_image_response(pRaw)
    /\ pOp' = "parse_image"
    /\ UNCHANGED <<pRaw, intakeVars, mergeVars, extraVars>>

\* process_answer on a fresh interview, the collaborator returning pRaw
AnswerFirstQuestion ==
    /\ \E answer \in Answers :
          LET r == process_answer(start_interview, answer, Returned(pRaw)) IN
          pOut' = Finished(r.outcome, IF r.outcome = "returned" THEN r.result ELSE Null)
    /\ pOp' = "process_answer"
    /\ UNCHANGED <<pRaw, intakeVars, mergeVars, extraVars>>

\* classify, the collaborator returning pRaw
Classify ==
    /\ \E patient \in Patients : pOut' = classify(patient, Returned(pRaw))
    /\ pOp' = "classify"
    /\ UNCHANGED <<pRaw, intakeVars, mergeVars, extraVars>>

\* classify, the collaborator raising
ClassifyCollaboratorFails ==
    /\ \E patient \in Patients : pOut' = classify(patient, Raised)
    /\ pOp' = "classify_api_failure"
    /\ UNCHANGED <<pRaw, intakeVars, mergeVars, extraVars>>

\* analyze, the collaborator returning pRaw
Analyze ==
    /\ pOut' = analyze("image", Returned(pRaw))
    /\ pOp' = "analyze"
    /\ UNCHANGED <<pRaw, intakeVars, mergeVars, extraVars>>

\* analyze, the collaborator raising
AnalyzeCollaboratorFails ==
    /\ pOut' = analyze("image", Raised)
    /\ pOp' = "analyze_api_failure"
    /\ UNCHANGED <<pRaw, intakeVars, mergeVars, extraVars>>

NextParse ==
    \/ ParseIntake
    \/ ParseTriage
    \/ ParseImage
    \/ AnswerFirstQuestion
    \/ Classify
    \/ ClassifyCollaboratorFails
    \/ Analyze
    \/ AnalyzeCollaboratorFails

SpecParse == InitParse /\ [][NextParse]_vars

-----------------------------------------------------------------------------
(* The deterministic classifier of src/src/ui/mock_services.py.  Here a str *)
(* is the sequence of its characters, since keywords are matched as         *)
(* substrings; numbers are in tenths as elsewhere, except the confidence    *)
(* table, which is in hundredths.                                           *)

Uppers == <<"A", "B", "C", "D", "E", "F", "G", "H", "I", "J", "K", "L", "M",
            "N", "O", "P", "Q", "R", "S", "T", "U", "V", "W", "X", "Y", "Z", "Ã", "Ô">>
Lowers == <<"a", "b", "c", "d", "e", "f", "g", "h", "i", "j", "k", "l", "m",
            "n", "o", "p", "q", "r", "s", "t", "u", "v", "w", "x", "y", "z", "ã", "ô">>

\* str.lower(), character by character
LowerChar(c) ==
    IF \E i \in 1..Len(Uppers) : Uppers[i] = c
    THEN Lowers[CHOOSE i \in 1..Len(Uppers) : Uppers[i] = c]
    ELSE c

Lower(text) == [i \in 1..Len(text) |-> LowerChar(text[i])]

\* kw in lower
Contains(kw, lower) ==
    \E i \in 1..(Len(lower) - Len(kw) + 1) : SubSeq(lower, i, i + Len(kw) - 1) = kw

\* _HIGH_ACUITY_KEYWORDS
HIGH_ACUITY_KEYWORDS ==
    {<<"u", "n", "r", "e", "s", "p", "o", "n", "s", "i", "v", "e">>,
     <<"a", "i", "r", "w", "a", "y">>,
     <<"c", "h", "o", "k", "i", "n", "g">>,
     <<"h", "e", "m", "o", "r", "r", "h", "a", "g", "e">>,
     <<"s", "e", "i", "z", "u", "r", "e">>,
     <<"c", "o", "n", "v", "u", "l", "s", "ã", "o">>,
     <<"p", "a", "r", "a", "d", "a">>,
     <<"i", "n", "c", "o", "n", "s", "c", "i", "e", "n", "t", "e">>}

\* _ORANGE_KEYWORDS
ORANGE_KEYWORDS ==
    {<<"c", "h", "e", "s", "t", " ", "p", "a", "i", "n">>,
     <<"d", "o", "r", " ", "n", "o", " ", "p", "e", "i", "t", "o">>,
     <<"p", "e", "i", "t", "o">>,
     <<"s", "t", "r", "o", "k", "e">>,
     <<"a", "v", "c">>,
     <<"a", "l", "t", "e", "r", "e", "d", " ", "c", "o", "n", "s", "c", "i", "o", "u", "s", "n", "e", "s", "s">>,
     <<"s", "e", "v", "e", "r", "e", " ", "p", "a", "i", "n">>,
     <<"d", "o", "r", " ", "i", "n", "t", "e", "n", "s", "a">>}

\* _YELLOW_KEYWORDS
YELLOW_KEYWORDS ==
    {<<"f", "e", "b", "r", "e">>,
     <<"f", "e", "v", "e", "r">>,
     <<"v", "o", "m", "i", "t">>,
     <<"v", "ô", "m", "i", "t", "o">>,
     <<"a", "b", "d", "o", "m", "e", "n">>,
     <<"a", "b", "d", "ô", "m", "e", "n">>,
     <<"f", "a", "l", "t", "a", " ", "d", "e", " ", "a", "r">>,
     <<"d", "y", "s", "p", "n", "e", "a">>,
     <<"d", "i", "s", "p", "n", "e", "i", "a">>,
     <<"a", "s", "m", "a">>,
     <<"w", "h", "e", "e", "z", "i", "n", "g">>}

\* _GREEN_KEYWORDS
GREEN_KEYWORDS ==
    {<<"t", "o", "r", "c", "i">>,
     <<"s", "p", "r", "a", "i", "n">>,
     <<"m", "i", "n", "o", "r">>,
     <<"l", "e", "v", "e">>,
     <<"c", "u", "t">>,
     <<"c", "o", "r", "t", "e">>,
     <<"p", "e", "q", "u", "e", "n", "o">>,
     <<"d", "o", "r", " ", "l", "e", "v", "e">>}

\* _BLUE_KEYWORDS
BLUE_KEYWORDS ==
    {<<"r", "e", "c", "e", "i", "t", "a">>,
     <<"r", "e", "f", "i", "l", "l">>,
     <<"p", "r", "e", "s", "c", "r", "i", "p", "t", "i", "o", "n">>,
     <<"r", "e", "n", "o", "v", "a", "r">>,
     <<"a", "t", "e", "s", "t", "a", "d", "o">>,
     <<"c", "e", "r", "t", "i", "f", "i", "c", "a", "t", "e">>,
     <<"c", "o", "n", "s", "u", "l", "t", "a", " ", "d", "e", " ", "r", "o", "t", "i", "n", "a">>}

\* the lists are tried from the most to the least urgent colour
KeywordColorBySeverity(lower) ==
    IF \E kw \in HIGH_ACUITY_KEYWORDS : Contains(kw, lower) THEN "RED"
    ELSE IF \E kw \in ORANGE_KEYWORDS : Contains(kw, lower) THEN "ORANGE"
    ELSE IF \E kw \in YELLOW_KEYWORDS : Contains(kw, lower) THEN "YELLOW"
    ELSE IF \E kw \in GREEN_KEYWORDS : Contains(kw, lower) THEN "GREEN"
    ELSE IF \E kw \in BLUE_KEYWORDS : Contains(kw, lower) THEN "BLUE"
    ELSE "YELLOW"

\* the loops of _keyword_color over the lower-cased text
KeywordColorOfLower(lower) ==
    IF \E kw \in HIGH_ACUITY_KEYWORDS : Contains(kw, lower) THEN "RED"
    ELSE IF \E kw \in BLUE_KEYWORDS : Contains(kw, lower) THEN "BLUE"
    ELSE IF \E kw \in ORANGE_KEYWORDS : Contains(kw, lower) THEN "ORANGE"
    ELSE IF \E kw \in YELLOW_KEYWORDS : Contains(kw, lower) THEN "YELLOW"
    ELSE IF \E kw \in GREEN_KEYWORDS : Contains(kw, lower) THEN "GREEN"
    ELSE "YELLOW"

keyword_color(text) == KeywordColorOfLower(Lower(text))

DigitChars == <<"0", "1", "2", "3", "4", "5", "6", "7", "8", "9">>

\* the characters before the first "/": blood_pressure.split("/")[0]
SplitFirst(chars) ==
    IF \E i \in 1..Len(chars) : chars[i] = "/"
    THEN SubSeq(chars, 1, (CHOOSE i \in 1..Len(chars) :
                              chars[i] = "/" /\ \A j \in 1..(i - 1) : chars[j] # "/") - 1)
    ELSE chars

RECURSIVE DecimalValue(_)
DecimalValue(digits) ==
    IF digits = <<>> THEN 0
    ELSE 10 * DecimalValue(SubSeq(digits, 1, Len(digits) - 1))
         + (CHOOSE d \in 0..9 : DigitChars[d + 1] = digits[Len(digits)])

RECURSIVE StripSpaces(_)
\* s.strip(), which int() applies to its argument, for the blank " "
StripSpaces(chars) ==
    IF chars = <<>> THEN <<>>
    ELSE IF Head(chars) = " " THEN StripSpaces(Tail(chars))
    ELSE IF chars[Len(chars)] = " " THEN StripSpaces(SubSeq(chars, 1, Len(chars) - 1))
    ELSE chars

AllDigits(chars) ==
    chars # <<>> /\ \A i \in 1..Len(chars) : \E d \in 1..10 : DigitChars[d] = chars[i]

\* int() of a stripped string: an optional sign and decimal digits
SignedInt(chars) ==
    IF chars # <<>> /\ Head(chars) \in {"+", "-"} /\ AllDigits(Tail(chars))
    THEN [ok |-> TRUE,
          val |-> IF Head(chars) = "-" THEN 0 - DecimalValue(Tail(chars))
                  ELSE DecimalValue(Tail(chars))]
    ELSE IF AllDigits(chars) THEN [ok |-> TRUE, val |-> DecimalValue(chars)]
    ELSE [ok |-> FALSE, val |-> 0]

\* int(s): the number, or the ValueError raised when s is no integer literal
IntOf(chars) == SignedInt(StripSpaces(chars))

\* the try block on blood_pressure once systolic is converted: whether it
\* returns ORANGE; a ValueError is passed over
SystolicOutOfRange(systolic) ==
    systolic.ok /\ (systolic.val < 90 \/ systolic.val > 200)

\* vs.field is not None
Measured(val) == val # Null

NoUpgrade == "none"

\* the heart rate is looked at before everything else
CheckVitalsHeartRateFirst(vs) ==
    IF Measured(vs.heart_rate) /\ (vs.heart_rate.v > 1200 \/ vs.heart_rate.v < 500)
    THEN "YELLOW"
    ELSE IF Measured(vs.spo2) /\ vs.spo2.v < 920 THEN "ORANGE"
    ELSE IF Truthy(vs.blood_pressure)
            /\ SystolicOutOfRange(IntOf(SplitFirst(vs.blood_pressure.v)))
    THEN "ORANGE"
    ELSE IF Measured(vs.respiratory_rate)
            /\ (vs.respiratory_rate.v > 300 \/ vs.respiratory_rate.v < 100)
    THEN "YELLOW"
    ELSE IF Measured(vs.temperature) /\ (vs.temperature.v > 400 \/ vs.temperature.v < 350)
    THEN "YELLOW"
    ELSE IF Measured(vs.glucose) /\ (vs.glucose.v < 600 \/ vs.glucose.v > 4000)
    THEN "YELLOW"
    ELSE NoUpgrade

\* _check_vital_red_flags on a VitalSigns object
CheckVitals(vs) ==
    IF Measured(vs.spo2) /\ vs.spo2.v < 920 THEN "ORANGE"
    ELSE IF Truthy(vs.blood_pressure)
            /\ SystolicOutOfRange(IntOf(SplitFirst(vs.blood_pressure.v)))
    THEN "ORANGE"
    ELSE IF Measured(vs.heart_rate) /\ (vs.heart_rate.v > 1200 \/ vs.heart_rate.v < 500)
    THEN "YELLOW"
    ELSE IF Measured(vs.respiratory_rate)
            /\ (vs.respiratory_rate.v > 300 \/ vs.respiratory_rate.v < 100)
    THEN "YELLOW"
    ELSE IF Measured(vs.temperature) /\ (vs.temperature.v > 400 \/ vs.temperature.v < 350)
    THEN "YELLOW"
    ELSE IF Measured(vs.glucose) /\ (vs.glucose.v < 600 \/ vs.glucose.v > 4000)
    THEN "YELLOW"
    ELSE NoUpgrade

check_vital_red_flags(vital_signs) ==
    IF vital_signs = Null THEN NoUpgrade ELSE CheckVitals(vital_signs)

COLOR_PRIORITY ==
    [c \in TriageColor |->
        CASE c = "RED" -> 0 [] c = "ORANGE" -> 1 [] c = "YELLOW" -> 2
          [] c = "GREEN" -> 3 [] c = "BLUE" -> 4]

\* the less urgent of the two is returned
LessUrgent(a, b) == IF COLOR_PRIORITY[a] <= COLOR_PRIORITY[b] THEN b ELSE a

more_urgent(a, b) == IF COLOR_PRIORITY[a] <= COLOR_PRIORITY[b] THEN a ELSE b

\* the pain scale override of mock_classify applied to `color`
PainOverrideReplaces(pain_scale, color) ==
    IF pain_scale = Null THEN color
    ELSE IF pain_scale.v >= 80 THEN "ORANGE"
    ELSE IF pain_scale.v >= 40 THEN "YELLOW"
    ELSE color

PainOverride(pain_scale, color) ==
    IF pain_scale = Null THEN color
    ELSE IF pain_scale.v >= 80 THEN more_urgent("ORANGE", color)
    ELSE IF pain_scale.v >= 40 THEN more_urgent("YELLOW", color)
    ELSE color

\* the vital sign upgrade is computed and not applied
VitalUpgradeIgnored(vital_upgrade, color) == color

\* the vital sign upgrade of mock_classify applied to `color`
VitalUpgrade(vital_upgrade, color) ==
    IF vital_upgrade # NoUpgrade THEN more_urgent(vital_upgrade, color) ELSE color

\* the colour mock_classify settles on
MockColor(patient) ==
    VitalUpgrade(check_vital_red_flags(patient.vital_signs),
                 PainOverride(patient.pain_scale, keyword_color(patient.chief_complaint.v)))

\* the locals of mock_classify: color after line 248, color after the pain
\* override, vital_upgrade
MockSignals(patient) ==
    [keyword |-> keyword_color(patient.chief_complaint.v),
     after_pain |-> PainOverride(patient.pain_scale,
                                 keyword_color(patient.chief_complaint.v)),
     vital_upgrade |-> check_vital_red_flags(patient.vital_signs)]

\* _CONFIDENCE, in hundredths
MOCK_CONFIDENCE ==
    [c \in TriageColor |->
        CASE c = "RED" -> 95 [] c = "ORANGE" -> 90 [] c = "YELLOW" -> 85
          [] c = "GREEN" -> 88 [] c = "BLUE" -> 92]

\* _REASONING[color] and _DISCRIMINATORS[color]: texts keyed by the colour
MockReasoning(color) == Str(<<"reasoning", color>>)
MockDiscriminators(color) ==
    List(<<Str(<<"discriminator", color, "1">>), Str(<<"discriminator", color, "2">>),
           Str(<<"discriminator", color, "3">>)>>)

MockRawResponse == Text(<<"[mock response]">>)

\* the TriageResult mock_classify builds; level and wait are looked up for
\* `level_color`
MockResult(color, level_color) ==
    TriageResult(color, TRIAGE_LEVELS[level_color][1], TRIAGE_LEVELS[level_color][2],
                 MockReasoning(color), MockDiscriminators(color), MOCK_CONFIDENCE[color],
                 MockRawResponse, FALSE)

\* level and wait are looked up before the overrides are applied
MockClassifyStaleLevel(patient) ==
    Finished("returned",
             MockResult(MockColor(patient), keyword_color(patient.chief_complaint.v)))

\* mock_classify(patient): no collaborator is called
mock_classify(patient) ==
    Finished("returned", MockResult(MockColor(patient), MockColor(patient)))

\* chief complaints
TwistedMyAnkle == Str(<<"T", "w", "i", "s", "t", "e", "d", " ", "m", "y", " ", "a", "n", "k", "l", "e">>)
TorciOTornozelo == Str(<<"T", "o", "r", "c", "i", " ", "o", " ", "t", "o", "r", "n", "o", "z", "e", "l", "o">>)

MockComplaints ==
    {TwistedMyAnkle, TorciOTornozelo,
     Str(<<"C", "h", "o", "k", "i", "n", "g", ",", " ", "c", "a", "n", "n", "o", "t", " ", "b", "r", "e", "a", "t", "h", "e">>),
     Str(<<"N", "e", "e", "d", " ", "a", " ", "p", "r", "e", "s", "c", "r", "i", "p", "t", "i", "o", "n", " ", "r", "e", "f", "i", "l", "l">>),
     Str(<<"C", "h", "e", "s", "t", " ", "p", "a", "i", "n">>),
     Str(<<"F", "e", "b", "r", "e", " ", "a", "l", "t", "a">>),
     Str(<<"D", "o", "r", " ", "n", "o", " ", "P", "E", "I", "T", "O", ",", " ", "q", "u", "e", "r", "o", " ", "r", "e", "c", "e", "i", "t", "a">>),
     Str(<<"C", "O", "N", "V", "U", "L", "S", "Ã", "O", " ", "a", "g", "o", "r", "a">>),
     Str(<<"F", "e", "b", "r", "e", " ", "l", "e", "v", "e">>),
     Str(<<"S", "e", "i", "z", "u", "r", "e", " ", "a", "f", "t", "e", "r", " ", "s", "t", "r", "o", "k", "e">>),
     Str(<<>>)}

\* pain_scale: None or an integer of 0..10
MockPainScales == {Null, Num(0), Num(30), Num(40), Num(70), Num(80), Num(90), Num(100)}

VitalSigns(heart_rate, blood_pressure, respiratory_rate, temperature, spo2, glucose) ==
    [heart_rate |-> heart_rate, blood_pressure |-> blood_pressure,
     respiratory_rate |-> respiratory_rate, temperature |-> temperature,
     spo2 |-> spo2, glucose |-> glucose]

MockVitals ==
    {Null,
     VitalSigns(Null, Null, Null, Null, Null, Null),
     VitalSigns(Num(800), Str(<<"1", "2", "0", "/", "8", "0">>), Num(160), Num(365),
                Num(980), Num(900)),
     VitalSigns(Null, Null, Null, Null, Num(880), Null),
     VitalSigns(Num(1300), Null, Null, Null, Num(880), Null),
     VitalSigns(Null, Str(<<"8", "5", "/", "6", "0">>), Null, Null, Null, Null),
     VitalSigns(Null, Str(<<"2", "1", "0">>), Null, Null, Null, Null),
     VitalSigns(Null, Str(<<"a", "b", "c">>), Null, Null, Null, Null),
     VitalSigns(Null, Str(<<"/", "8", "0">>), Null, Num(410), Null, Null),
     VitalSigns(Null, Str(<<>>), Null, Null, Null, Null),
     VitalSigns(Null, Str(<<" ", "8", "5", " ", "/", "6", "0">>), Null, Null, Null, Null),
     VitalSigns(Null, Str(<<"-", "5", "/", "6", "0">>), Null, Null, Null, Null),
     VitalSigns(Null, Str(<<"1", "2", " ", "0", "/", "8", "0">>), Null, Null, Null, Null),
     VitalSigns(Num(1300), Null, Null, Null, Null, Null),
     VitalSigns(Num(450), Null, Null, Null, Null, Null),
     VitalSigns(Null, Null, Num(350), Null, Null, Null),
     VitalSigns(Null, Null, Null, Num(340), Null, Null),
     VitalSigns(Null, Null, Null, Null, Null, Num(500))}

\* the fields of PatientData mock_classify has no use for
MockOtherFields ==
    {[symptoms |-> Null, age |-> Null, notes |-> Null],
     [symptoms |-> List(<<Str(<<"c", "h", "o", "k", "i", "n", "g">>)>>), age |-> Num(700),
      notes |-> Str(<<"a", "v", "c">>)]}

PatientData(chief_complaint, pain_scale, vital_signs, other) ==
    [chief_complaint |-> chief_complaint, pain_scale |-> pain_scale,
     vital_signs |-> vital_signs, symptoms |-> other.symptoms, age |-> other.age,
     notes |-> other.notes]

MockPatients ==
    {PatientData(c, p, vs, o) :
        c \in MockComplaints, p \in MockPainScales, vs \in MockVitals, o \in MockOtherFields}

InitMock ==
    /\ kPatient \in MockPatients
    /\ kTwin \in {q \in MockPatients :
                    /\ q.chief_complaint = kPatient.chief_complaint
                    /\ q.pain_scale = kPatient.pain_scale
                    /\ q.vital_signs = kPatient.vital_signs}
    /\ kOut = Null
    /\ kTwinOut = Null
    /\ kDone = FALSE
    /\ kSignals = Null
    /\ IdleIntake
    /\ IdleMerge
    /\ IdleParse
    /\ IdleRegroup
    /\ IdlePipeline

\* both records are classified
MockClassify ==
    /\ ~kDone
    /\ kOut' = mock_classify(kPatient)
    /\ kTwinOut' = mock_classify(kTwin)
    /\ kDone' = TRUE
    /\ kSignals' = MockSignals(kPatient)
    /\ UNCHANGED <<kPatient, kTwin, intakeVars, mergeVars, parseVars, regroupVars,
                   pipelineVars>>

NextMock == MockClassify

SpecMock == InitMock /\ [][NextMock]_vars

-----------------------------------------------------------------------------
(* The pipeline: image analysis (optional), triage, documentation *)

\* _append_errors(existing, new)
append_errors(existing, new) == existing \o new

\* state.get(key)
StateGet(st, key) == IF key \in DOMAIN st THEN st[key] ELSE Null

\* a node's update applied to the state: the errors channel goes through its
\* reducer, every other key is overwritten
ApplyUpdate(st, update) ==
    [key \in DOMAIN st \cup DOMAIN update |->
        IF key \notin DOMAIN update THEN st[key]
        ELSE IF key = "errors" /\ key \in DOMAIN st
             THEN append_errors(st[key], update[key])
        ELSE update[key]]

\* f"<prefix>: {exc}"
ErrorMessage(prefix, exc) == [prefix |-> prefix, exc |-> exc]

\* ImageFindings.to_triage_summary(): the parts joined with " | "
to_triage_summary(findings) ==
    Str(<<[part |-> "header", modality |-> findings.modality,
           description |-> findings.description]>>
        \o (IF Truthy(findings.suspected_conditions)
            THEN <<[part |-> "Suspected", items |-> findings.suspected_conditions]>>
            ELSE <<>>)
        \o <<[part |-> "Severity", value |-> findings.severity]>>
        \o (IF Truthy(findings.key_observations)
            THEN <<[part |-> "Observations", items |-> findings.key_observations]>>
            ELSE <<>>)
        \o (IF findings.requires_specialist
            THEN <<[part |-> "Specialist referral recommended"]>>
            ELSE <<>>))

\* `not image_bytes`: None or b""
NoImage(image_bytes) == image_bytes \in {"None", ""}

\* the try block of run_image_analysis once analyze_image has ended
ImageUpdate(analysis, patient_data) ==
    IF analysis.outcome = "returned"
    THEN Finished("returned",
                  [key \in {"image_findings", "patient_data"} |->
                      IF key = "image_findings" THEN analysis.result
                      ELSE [patient_data EXCEPT
                              !.image_findings = to_triage_summary(analysis.result)]])
    ELSE \* except Exception as exc
         Finished("returned",
                  [key \in {"errors"} |->
                      <<ErrorMessage("Image analysis failed", analysis.outcome)>>])

\* run_image_analysis(state), analyze_image's collaborator answering `reply`
run_image_analysis(st, reply) ==
    IF NoImage(StateGet(st, "image_bytes")) THEN Finished("returned", EmptyDict)
    ELSE ImageUpdate(analyze(st["image_bytes"], reply), st["patient_data"])

\* the exception of classify_patient leaves run_triage
TriageUpdateUnguarded(classified) ==
    IF classified.outcome = "returned"
    THEN Finished("returned", [key \in {"triage_result"} |-> classified.result])
    ELSE Finished(classified.outcome, Null)

\* the try block of run_triage once classify_patient has ended
TriageUpdate(classified) ==
    IF classified.outcome = "returned"
    THEN Finished("returned", [key \in {"triage_result"} |-> classified.result])
    ELSE \* except Exception as exc
         Finished("returned",
                  [key \in {"errors"} |->
                      <<ErrorMessage("Triage classification failed", classified.outcome)>>])

\* run_triage(state), classify_patient's collaborator answering `reply`
run_triage(st, reply) == TriageUpdate(classify(st["patient_data"], reply))

\* generate_fhir_bundle(patient_data, triage_result) when the builder succeeds
FhirBundle(patient_data, triage_result) ==
    Dict([key \in {"resourceType", "patient_data", "triage_result"} |->
            CASE key = "resourceType" -> Str(<<"Bundle">>)
              [] key = "patient_data" -> patient_data
              [] key = "triage_result" -> triage_result])

\* generate_fhir_bundle: the bundle, or the exception of the builder
generate_fhir_bundle(patient_data, triage_result, builds) ==
    IF builds THEN Finished("returned", FhirBundle(patient_data, triage_result))
    ELSE Finished("BuilderError", Null)

\* the try block of run_documentation once generate_fhir_bundle has ended
DocumentationUpdate(generated) ==
    IF generated.outcome = "returned"
    THEN Finished("returned", [key \in {"fhir_bundle"} |-> generated.result])
    ELSE \* except Exception as exc
         Finished("returned",
                  [key \in {"errors", "fhir_bundle"} |->
                      IF key = "errors"
                      THEN <<ErrorMessage("FHIR generation failed", generated.outcome)>>
                      ELSE Null])

\* `not triage_result`: the key is absent or None
NoTriageResult(st) == StateGet(st, "triage_result") = Null

\* the builder is invoked whether or not there is a triage result
DocumentationUnguarded(st) == FALSE

\* run_documentation skips the builder
DocumentationSkips(st) == NoTriageResult(st)

\* run_documentation(state), the builder succeeding or not
run_documentation(st, builds) ==
    IF DocumentationSkips(st) THEN Finished("returned", [key \in {"fhir_bundle"} |-> Null])
    ELSE DocumentationUpdate(
             generate_fhir_bundle(st["patient_data"], StateGet(st, "triage_result"), builds))

\* the entry point leads to run_image_analysis whatever the state holds
AlwaysAnalyzeImage(st) == "run_image_analysis"

\* _should_analyze_image(state)
should_analyze_image(st) ==
    IF ~NoImage(StateGet(st, "image_bytes")) THEN "run_image_analysis" ELSE "run_triage"

PipelinePatients ==
    {[chief_complaint |-> Dor, image_findings |-> Null],
     [chief_complaint |-> Febre, image_findings |-> Str(<<[part |-> "earlier findings"]>>)]}

\* image_bytes: None, b"" or some bytes
PipelineImages == {"None", "", "image"}

\* what the collaborator behind analyze_image may answer
PipelineImageReplies == {Raised} \cup {Returned(text) : text \in ImageTexts}

\* what the collaborator behind classify_patient may answer
PipelineTriageReplies == {Raised} \cup {Returned(text) : text \in TriageTexts}

\* the state after a node: its update applied, or the state as it was when
\* the node raised
AfterNode(st, ended) ==
    IF ended.outcome = "returned" THEN ApplyUpdate(st, ended.result) ELSE st

\* a node's stage failed: it reported an error or raised
StageFailed(ended) == ended.outcome # "returned" \/ "errors" \in DOMAIN ended.result

\* what a node's execution leaves in the log
Executed(node, st, ended) ==
    [node |-> node, patient_data |-> st["patient_data"], failed |-> StageFailed(ended)]

\* the graph follows the edge to `next`; an exception of the node leaves invoke
FollowEdge(ended, next) == IF ended.outcome = "returned" THEN next ELSE "END"

\* run_pipeline returns what invoke returns, and raises what it raises
PipelineOutcome(ended, next) ==
    IF ended.outcome # "returned" THEN "raised"
    ELSE IF next = "END" THEN "returned" ELSE "running"

\* run_pipeline builds the initial state; the graph is at its entry point
InitPipeline ==
    /\ gInput \in [patient_data : PipelinePatients, image_bytes : PipelineImages]
    /\ gState = [key \in {"patient_data", "image_bytes", "image_mime_type", "errors"} |->
                    CASE key = "patient_data" -> gInput.patient_data
                      [] key = "image_bytes" -> gInput.image_bytes
                      [] key = "image_mime_type" -> "image/jpeg"
                      [] key = "errors" -> <<>>]
    /\ gNode = "entry"
    /\ gLog = <<>>
    /\ gCalls = <<>>
    /\ gOutcome = "running"
    /\ gModel = <<>>
    /\ IdleIntake
    /\ IdleMerge
    /\ IdleParse
    /\ IdleRegroup
    /\ IdleMock

\* the conditional entry point
Route ==
    /\ gNode = "entry"
    /\ gNode' = should_analyze_image(gState)
    /\ UNCHANGED <<gInput, gState, gLog, gCalls, gOutcome, gModel, intakeVars, mergeVars,
                   parseVars, regroupVars, mockVars>>

\* a call of the text-generation collaborator made under `node`
ModelCall(node, reply) == [node |-> node, ok |-> reply.ok]

\* a node has ended: the update is applied and the edge followed
NodeEnds(node, ended, next) ==
    /\ gState' = AfterNode(gState, ended)
    /\ gLog' = Append(gLog, Executed(node, gState, ended))
    /\ gNode' = FollowEdge(ended, next)
    /\ gOutcome' = PipelineOutcome(ended, next)

\* node run_image_analysis, then the edge to run_triage
RunImageAnalysis ==
    /\ gNode = "run_image_analysis"
    /\ \E reply \in PipelineImageReplies :
          /\ NodeEnds("run_image_analysis", run_image_analysis(gState, reply), "run_triage")
          /\ gModel' = IF NoImage(StateGet(gState, "image_bytes")) THEN gModel
                       ELSE Append(gModel, ModelCall("run_image_analysis", reply))
    /\ gCalls' = IF NoImage(StateGet(gState, "image_bytes")) THEN gCalls
                 ELSE Append(gCalls, "analyze_image")
    /\ UNCHANGED <<gInput, intakeVars, mergeVars, parseVars, regroupVars, mockVars>>

\* node run_triage, then the edge to run_documentation
RunTriage ==
    /\ gNode = "run_triage"
    /\ \E reply \in PipelineTriageReplies :
          /\ NodeEnds("run_triage", run_triage(gState, reply), "run_documentation")
          /\ gModel' = Append(gModel, ModelCall("run_triage", reply))
    /\ gCalls' = Append(gCalls, "classify_patient")
    /\ UNCHANGED <<gInput, intakeVars, mergeVars, parseVars, regroupVars, mockVars>>

\* node run_documentation, then the edge to END: invoke returns the state
RunDocumentation ==
    /\ gNode = "run_documentation"
    /\ \E builds \in BOOLEAN :
          NodeEnds("run_documentation", run_documentation(gState, builds), "END")
    /\ gCalls' = IF DocumentationSkips(gState) THEN gCalls
                 ELSE Append(gCalls, "generate_fhir_bundle")
    /\ UNCHANGED <<gInput, gModel, intakeVars, mergeVars, parseVars, regroupVars, mockVars>>

NextPipeline ==
    \/ Route
    \/ RunImageAnalysis
    \/ RunTriage
    \/ RunDocumentation

SpecPipeline == InitPipeline /\ [][NextPipeline]_vars

\* invoke runs the graph to its end: a node that can run does run
SpecPipelineRuns == SpecPipeline /\ WF_vars(NextPipeline)

-----------------------------------------------------------------------------
(* Regrouping the fold: the extractions of three turns merged left to right *)
(* and merged with the last two grouped first.                              *)

\* nested records the regrouping is exercised on, besides VitalValues
RegroupVitalValues ==
    {Absent, Null, Dict([heart_rate |-> Null]), Dict([blood_pressure |-> BP]),
     Dict([heart_rate |-> Num(800), blood_pressure |-> Null])}

RegroupRecords ==
    {Record([symptoms |-> s, vital_signs |-> vs]) :
        s \in SymptomValues, vs \in RegroupVitalValues}

InitRegroup ==
    /\ rA \in RegroupRecords
    /\ rB \in RegroupRecords
    /\ rC \in RegroupRecords
    /\ rLeft = EmptyDict
    /\ rRight = EmptyDict
    /\ rDone = FALSE
    /\ IdleIntake
    /\ IdleMerge
    /\ IdleParse
    /\ IdleMock
    /\ IdlePipeline

\* both groupings of the three records are merged
Regroup ==
    /\ ~rDone
    /\ rLeft' = merge_extracted_data(merge_extracted_data(rA, rB), rC)
    /\ rRight' = merge_extracted_data(rA, merge_extracted_data(rB, rC))
    /\ rDone' = TRUE
    /\ UNCHANGED <<rA, rB, rC, intakeVars, mergeVars, parseVars, mockVars, pipelineVars>>

NextRegroup == Regroup

SpecRegroup == InitRegroup /\ [][NextRegroup]_vars

-----------------------------------------------------------------------------
(* Properties of the interview, checked under Spec.  `before` is the state  *)
(* the last call was given, `raw` what the collaborator did in it, `state`  *)
(* what the caller holds after it.                                          *)

\* C1: for every IN_PROGRESS state and every text the collaborator returns,
\* process_answer returns COMPLETE exactly when (the parsed reply declares
\* is_complete and the merged record is sufficient: chief complaint present
\* and at least 3 of the six desired fields present and non-empty) or
\* turn_count + 1 >= 15, and returns IN_PROGRESS in every other case.
CompletionRule ==
    (nCalls > 0 /\ before.status = "IN_PROGRESS" /\ raw.ok) =>
        /\ outcome = "returned"
        /\ LET declared == parse_intake_response(raw.text).is_complete
               present(f) == \/ Truthy(Get(state.extracted, f))
                             \/ Get(state.extracted, f).t \in {"num", "bool"}
               sufficient ==
                   /\ present("chief_complaint")
                   /\ Cardinality({f \in DesiredFields : present(f)}) >= 3
           IN  state.status =
                   IF (declared /\ sufficient) \/ before.turn_count + 1 >= MAX_TURNS
                   THEN "COMPLETE" ELSE "IN_PROGRESS"

\* C2: for every IN_PROGRESS state with turn_count = 14, every answer and
\* every text the collaborator returns, process_answer returns a state with
\* status COMPLETE, turn_count 15 and no pending question.
CeilingForcesCompletion ==
    (nCalls > 0 /\ before.status = "IN_PROGRESS"
                /\ before.turn_count = MAX_TURNS - 1 /\ raw.ok) =>
        /\ outcome = "returned"
        /\ state.status = "COMPLETE"
        /\ state.turn_count = MAX_TURNS
        /\ state.pending_question = Null

\* C3: on a state whose status is COMPLETE or ABORTED process_answer raises,
\* before the collaborator is called, and returns no new state: the caller
\* is left with the state it had.
TerminalStatesRefuse ==
    (nCalls > 0 /\ before.status \in {"COMPLETE", "ABORTED"}) =>
        /\ outcome = "ValueError"
        /\ calls = 0
        /\ state = before
        /\ after = before

\* a call on a COMPLETE state that an earlier call of the interview returned
TerminalStatesRefuseWitness ==
    /\ nCalls = 2
    /\ before.status = "COMPLETE"
    /\ before.raw_extraction_response # Null
    /\ outcome = "ValueError"

\* C4: in every state process_answer returns, COMPLETE with turn_count < 15
\* implies a non-empty chief complaint in the accumulated record; without a
\* chief complaint completion happens only in the call that brings
\* turn_count to 15, and that call completes whatever the record holds.
CompleteHasComplaint ==
    (nCalls > 0 /\ outcome = "returned") =>
        /\ (state.status = "COMPLETE" /\ state.turn_count < MAX_TURNS)
              => Truthy(Get(state.extracted, "chief_complaint"))
        /\ (state.status = "COMPLETE"
              /\ ~Truthy(Get(state.extracted, "chief_complaint")))
              => state.turn_count = MAX_TURNS /\ before.turn_count = MAX_TURNS - 1
        /\ state.turn_count >= MAX_TURNS => state.status = "COMPLETE"

\* a call below the ceiling has completed the interview
CompleteHasComplaintWitness ==
    /\ nCalls > 0
    /\ outcome = "returned"
    /\ before.status = "IN_PROGRESS"
    /\ state.status = "COMPLETE"
    /\ state.turn_count < MAX_TURNS
    /\ Truthy(Get(state.extracted, "chief_complaint"))

\* C5: when the collaborator raises during process_answer the error reaches
\* the caller, no new state is produced and the state passed in is left as it
\* was, conversation and turn count included, so that a later call on it
\* starts from where the failed one started.
FailureLeavesStateAlone ==
    (nCalls > 0 /\ ~raw.ok /\ before.status = "IN_PROGRESS") =>
        /\ outcome = "APIError"
        /\ calls = 1
        /\ after = before
        /\ state = before
        /\ state.turn_count = before.turn_count

\* the collaborator raised in the second call of an interview
FailureLeavesStateAloneWitness ==
    /\ nCalls = 2
    /\ ~raw.ok
    /\ before.status = "IN_PROGRESS"
    /\ before.turn_count > 0
    /\ outcome = "APIError"

-----------------------------------------------------------------------------
(* Properties of the accumulator, checked under SpecAccumulate *)

\* C10: for every extraction record X, null values, empty lists and nested
\* records included, _merge_extracted_data(X, X) equals X: a fold step whose
\* incoming record is the accumulated one leaves the accumulated record as
\* it was.
MergeIdempotent == (mSteps > 0 /\ mInc = mPrev) => mAcc = mPrev

\* a record with a null, an empty list and a nested record holding a null has
\* been merged into itself
MergeIdempotentWitness ==
    /\ mSteps > 0
    /\ mInc = mPrev
    /\ mPrev = [chief_complaint |-> Null, symptoms |-> List(<<>>),
                vital_signs |-> Dict([heart_rate |-> Null, blood_pressure |-> BP])]

\* C12: when a field of the previous record holds a non-empty list and the
\* incoming record holds an empty list for it, the merged record keeps the
\* previous list, at every turn of the fold.
EmptyListKeepsPopulated ==
    mSteps > 0 =>
        \A k \in DOMAIN mPrev \cap DOMAIN mInc :
            (mPrev[k].t = "list" /\ mPrev[k].v # <<>> /\ mInc[k] = List(<<>>))
                => (k \in DOMAIN mAcc /\ mAcc[k] = mPrev[k])

\* at the second turn an empty symptom list met a populated one
EmptyListKeepsPopulatedWitness ==
    /\ mSteps = 2
    /\ "symptoms" \in DOMAIN mPrev
    /\ "symptoms" \in DOMAIN mInc
    /\ mPrev["symptoms"] = List(<<Febre, Tosse>>)
    /\ mInc["symptoms"] = List(<<>>)

\* C20: a key whose incoming value is null, or that the incoming record does
\* not hold, has exactly its previous value in the merged record and stays
\* absent when the previous record did not hold it; merge removes no key of
\* the previous record and replaces no non-null value by null, in the
\* record and in its nested records.
NullKeepsPrevious ==
    mSteps > 0 =>
        /\ \A k \in DOMAIN mPrev \cup DOMAIN mInc :
              (k \notin DOMAIN mInc \/ mInc[k] = Null) =>
                  IF k \in DOMAIN mPrev
                  THEN k \in DOMAIN mAcc /\ mAcc[k] = mPrev[k]
                  ELSE k \notin DOMAIN mAcc
        /\ DOMAIN mPrev \subseteq DOMAIN mAcc
        /\ \A k \in DOMAIN mPrev :
              /\ mPrev[k] # Null => mAcc[k] # Null
              /\ (mPrev[k].t = "dict" /\ mAcc[k].t = "dict") =>
                    \A f \in DOMAIN mPrev[k].v :
                        /\ f \in DOMAIN mAcc[k].v
                        /\ mPrev[k].v[f] # Null => mAcc[k].v[f] # Null

\* a null met a recorded chief complaint, and a null met a key the previous
\* record did not hold
NullKeepsPreviousWitness ==
    /\ mSteps > 0
    /\ "chief_complaint" \in DOMAIN mPrev
    /\ mPrev["chief_complaint"] = Dor
    /\ "chief_complaint" \in DOMAIN mInc
    /\ mInc["chief_complaint"] = Null
    /\ "symptoms" \notin DOMAIN mPrev
    /\ "symptoms" \in DOMAIN mInc
    /\ mInc["symptoms"] = Null

\* C11: merge is associative: for all extraction records a, b, c,
\* merge(merge(a, b), c) equals merge(a, merge(b, c)).
MergeAssociative == rDone => rLeft = rRight

-----------------------------------------------------------------------------
(* Properties of the parsers and of the operations built on them, checked   *)
(* under SpecParse.  pOp names the last operation, pRaw is the text the     *)
(* collaborator returned and pOut what the operation produced.              *)

ClassifyPropagates ==
    pOp = "classify_api_failure" => pOut.outcome = "APIError"

\* C8: malformed model text is never surfaced as an error: for every text
\* the collaborator can return, process_answer, classify and analyze return
\* a value and never raise.
MalformedNeverRaises ==
    pOp \in {"process_answer", "classify", "analyze"} => pOut.outcome = "returned"

StructuredTierWins ==
    /\ (pOp = "parse_triage" /\ LoadJson(pRaw).ok
          /\ EnumWord(GetOr(LoadJson(pRaw).val, "triage_color", Str(<<>>))) \in TriageColor) =>
          /\ pOut.triage_color =
                EnumWord(GetOr(LoadJson(pRaw).val, "triage_color", Str(<<>>)))
          /\ ~pOut.parse_failed
    /\ (pOp = "parse_image" /\ LoadJson(pRaw).ok
          /\ EnumWord(GetOr(LoadJson(pRaw).val, "severity", Str(<<>>))) \in ImageSeverity) =>
          /\ pOut.severity = EnumWord(GetOr(LoadJson(pRaw).val, "severity", Str(<<>>)))
          /\ ~pOut.parse_failed

\* C18: when the structured tier fails and the text names a member of the
\* enumeration, the enum-based parsers return the member named first in the
\* text, not the most severe one, with confidence 0.5 and parse_failed false.
RegexTierFirstToken ==
    /\ (pOp = "parse_triage" /\ ~TriageTier1(pRaw).ok
          /\ \E i \in 1..Len(Atoms(pRaw)) : Upper(Atoms(pRaw)[i]) \in TriageColor) =>
          LET atoms == Atoms(pRaw)
              first == CHOOSE i \in 1..Len(atoms) :
                          /\ Upper(atoms[i]) \in TriageColor
                          /\ \A j \in 1..(i - 1) : Upper(atoms[j]) \notin TriageColor
          IN  /\ pOut.triage_color = Upper(atoms[first])
              /\ pOut.confidence = 5
              /\ ~pOut.parse_failed
    /\ (pOp = "parse_image" /\ ~ImageTier1(pRaw).ok
          /\ \E i \in 1..Len(Atoms(pRaw)) : Upper(Atoms(pRaw)[i]) \in ImageSeverity) =>
          LET atoms == Atoms(pRaw)
              first == CHOOSE i \in 1..Len(atoms) :
                          /\ Upper(atoms[i]) \in ImageSeverity
                          /\ \A j \in 1..(i - 1) : Upper(atoms[j]) \notin ImageSeverity
          IN  /\ pOut.severity = Upper(atoms[first])
              /\ pOut.confidence = 5
              /\ ~pOut.parse_failed

\* the triage parser has run on prose that names YELLOW and then RED
RegexTierFirstTokenWitness ==
    /\ pOp = "parse_triage"
    /\ ~TriageTier1(pRaw).ok
    /\ pOut.triage_color = "YELLOW"
    /\ \E i \in 1..Len(Atoms(pRaw)) : Upper(Atoms(pRaw)[i]) = "RED"

\* C19: whenever the structured tier succeeds the returned confidence lies
\* in [0,1]: a number above 1 becomes 1, a number below 0 becomes 0, a number
\* in the range is kept and a missing confidence field becomes 0.7.
ConfidenceClamped ==
    \/ pOp \notin {"parse_triage", "parse_image"}
    \/ (pOp = "parse_triage" /\ ~TriageTier1(pRaw).ok)
    \/ (pOp = "parse_image" /\ ~ImageTier1(pRaw).ok)
    \/ LET object == LoadJson(pRaw).val IN
       /\ pOut.confidence \in 0..10
       /\ "confidence" \notin DOMAIN object => pOut.confidence = 7
       /\ ("confidence" \in DOMAIN object /\ object["confidence"].t = "num") =>
             pOut.confidence = IF object["confidence"].v > 10 THEN 10
                               ELSE IF object["confidence"].v < 0 THEN 0
                               ELSE object["confidence"].v

\* the structured tier of the triage parser met a confidence of 1.5
ConfidenceClampedWitness ==
    /\ pOp = "parse_triage"
    /\ TriageTier1(pRaw).ok
    /\ "confidence" \in DOMAIN LoadJson(pRaw).val
    /\ LoadJson(pRaw).val["confidence"] = Num(15)
    /\ pOut.confidence = 10

-----------------------------------------------------------------------------
(* Properties of the deterministic classifier, checked under SpecMock *)

\* C13: mock_classify calls no collaborator and, for every valid
\* PatientData, returns a TriageResult with parse_failed false, a confidence
\* in [0,1] and the level and max wait of its colour; the colour depends on
\* chief_complaint, pain_scale and vital_signs only: two records that agree
\* on the three get the same colour.
MockClassifyTotal ==
    kDone =>
        /\ kOut.outcome = "returned"
        /\ kOut.result.triage_color \in TriageColor
        /\ kOut.result.parse_failed = FALSE
        /\ kOut.result.confidence \in 0..100
        /\ kOut.result.triage_level = TRIAGE_LEVELS[kOut.result.triage_color][1]
        /\ kOut.result.max_wait_minutes = TRIAGE_LEVELS[kOut.result.triage_color][2]
        /\ kOut.result.raw_model_response = MockRawResponse
        /\ kTwinOut.outcome = "returned"
        /\ kTwinOut.result.triage_color = kOut.result.triage_color

\* a record whose pain scale lifted the keyword colour, classified next to
\* one that differs from it in symptoms, age and notes and has a blood
\* pressure that is no number
MockClassifyTotalWitness ==
    /\ kDone
    /\ kTwin # kPatient
    /\ kPatient.vital_signs # Null
    /\ kPatient.vital_signs.blood_pressure = Str(<<"a", "b", "c">>)
    /\ keyword_color(kPatient.chief_complaint.v) = "GREEN"
    /\ kOut.result.triage_color = "ORANGE"

\* C14 as stated: for "Twisted my ankle" with pain scale 9 and no vital
\* signs the keyword baseline is GREEN, the pain escalation ORANGE and the
\* final colour ORANGE.
TwistedAnkleBaselineGreen ==
    (kDone /\ kPatient.chief_complaint = TwistedMyAnkle
           /\ kPatient.pain_scale = Num(90) /\ kPatient.vital_signs = Null) =>
        /\ keyword_color(kPatient.chief_complaint.v) = "GREEN"
        /\ PainOverride(kPatient.pain_scale, keyword_color(kPatient.chief_complaint.v))
              = "ORANGE"
        /\ kOut.result.triage_color = "ORANGE"

\* C14, amended: for "Twisted my ankle" with pain scale 9 and no vital signs
\* no keyword matches, so the keyword baseline is the default YELLOW; the pain
\* escalation gives ORANGE and the final colour is ORANGE.
TwistedAnkleBaselineYellow ==
    (kDone /\ kPatient.chief_complaint = TwistedMyAnkle
           /\ kPatient.pain_scale = Num(90) /\ kPatient.vital_signs = Null) =>
        /\ keyword_color(kPatient.chief_complaint.v) = "YELLOW"
        /\ PainOverride(kPatient.pain_scale, keyword_color(kPatient.chief_complaint.v))
              = "ORANGE"
        /\ kOut.result.triage_color = "ORANGE"

\* "Twisted my ankle" with pain scale 9 and no vital signs has been classified
TwistedAnkleWitness ==
    /\ kDone
    /\ kPatient.chief_complaint = TwistedMyAnkle
    /\ kPatient.pain_scale = Num(90)
    /\ kPatient.vital_signs = Null
    /\ kOut.outcome = "returned"

-----------------------------------------------------------------------------
(* Properties of the pipeline, checked under SpecPipeline *)

\* the prefix of the message a failed node reports
STAGE_MESSAGE ==
    [node \in {"run_image_analysis", "run_triage", "run_documentation"} |->
        CASE node = "run_image_analysis" -> "Image analysis failed"
          [] node = "run_triage" -> "Triage classification failed"
          [] node = "run_documentation" -> "FHIR generation failed"]

IsFailed(executed) == executed.failed

\* the nodes that failed, in the order they ran
FailedStages == SelectSeq(gLog, IsFailed)

\* C15: run_pipeline never raises because a stage failed; the errors of the
\* final state hold exactly one message per failed stage, in stage order (so
\* none when no stage failed), and after a failed image analysis triage has
\* run on the patient data run_pipeline was given.
ErrorsPerFailedStage ==
    gNode = "END" =>
        /\ gOutcome = "returned"
        /\ Len(gState["errors"]) = Len(FailedStages)
        /\ \A i \in 1..Len(FailedStages) :
              gState["errors"][i].prefix = STAGE_MESSAGE[FailedStages[i].node]
        /\ \A i \in 1..Len(gLog) :
              (gLog[i].node = "run_image_analysis" /\ gLog[i].failed) =>
                  \E j \in (i + 1)..Len(gLog) :
                      /\ gLog[j].node = "run_triage"
                      /\ gLog[j].patient_data = gInput.patient_data

\* image analysis and triage have both failed, and the run has ended
ErrorsPerFailedStageWitness ==
    /\ gNode = "END"
    /\ Len(FailedStages) = 2
    /\ FailedStages[1].node = "run_image_analysis"
    /\ FailedStages[2].node = "run_triage"
    /\ Len(gState["errors"]) = 2

\* C16: in a final state fhir_bundle is non-null only if a triage_result is
\* present; when the triage stage failed, triage_result is absent, the FHIR
\* builder has not been invoked and fhir_bundle is None.
BundleOnlyWithTriage ==
    gNode = "END" =>
        /\ StateGet(gState, "fhir_bundle") # Null => StateGet(gState, "triage_result") # Null
        /\ (\E i \in 1..Len(gLog) : gLog[i].node = "run_triage" /\ gLog[i].failed) =>
              /\ "triage_result" \notin DOMAIN gState
              /\ \A i \in 1..Len(gCalls) : gCalls[i] # "generate_fhir_bundle"
              /\ "fhir_bundle" \in DOMAIN gState
              /\ gState["fhir_bundle"] = Null

\* the triage stage has failed and the run has ended
BundleOnlyWithTriageWitness ==
    /\ gNode = "END"
    /\ gOutcome = "returned"
    /\ \E i \in 1..Len(gLog) : gLog[i].node = "run_triage" /\ gLog[i].failed
    /\ "fhir_bundle" \in DOMAIN gState

-----------------------------------------------------------------------------
(* More properties of the turn accumulator, checked under SpecAccumulate *)

\* the previous record holds a nested value under key
HasNested(record, key) == key \in DOMAIN record /\ record[key].t = "dict"

\* C21: for a field whose incoming value is nested: when the previous record
\* holds no nested value for it, the incoming value is adopted if and only if
\* one of its fields is non-null, and otherwise the field is left as it was;
\* when the previous record holds a nested value, the result is nested and
\* each of its sub-fields follows the field rules: a sub-field the incoming
\* value leaves null or absent keeps its previous value (or stays absent), any
\* other takes the incoming value.
NestedMerge ==
    mSteps > 0 =>
        \A k \in DOMAIN mInc :
            mInc[k].t = "dict" =>
                IF ~HasNested(mPrev, k)
                THEN /\ (k \in DOMAIN mAcc /\ mAcc[k] = mInc[k])
                            <=> \E f \in DOMAIN mInc[k].v : mInc[k].v[f] # Null
                     /\ (\A f \in DOMAIN mInc[k].v : mInc[k].v[f] = Null) =>
                            IF k \in DOMAIN mPrev
                            THEN k \in DOMAIN mAcc /\ mAcc[k] = mPrev[k]
                            ELSE k \notin DOMAIN mAcc
                ELSE /\ HasNested(mAcc, k)
                     /\ DOMAIN mAcc[k].v \subseteq DOMAIN mPrev[k].v \cup DOMAIN mInc[k].v
                     /\ \A f \in DOMAIN mPrev[k].v \cup DOMAIN mInc[k].v :
                           IF f \notin DOMAIN mInc[k].v \/ mInc[k].v[f] = Null
                           THEN IF f \in DOMAIN mPrev[k].v
                                THEN f \in DOMAIN mAcc[k].v /\ mAcc[k].v[f] = mPrev[k].v[f]
                                ELSE f \notin DOMAIN mAcc[k].v
                           ELSE f \in DOMAIN mAcc[k].v /\ mAcc[k].v[f] = mInc[k].v[f]

\* a nested value with a null blood pressure met one with a null heart rate:
\* the merged value holds the previous heart rate and the incoming pressure
NestedMergeWitness ==
    /\ mSteps > 0
    /\ HasNested(mPrev, "vital_signs")
    /\ "vital_signs" \in DOMAIN mInc
    /\ mPrev["vital_signs"] = Dict([heart_rate |-> Num(800), blood_pressure |-> Null])
    /\ mInc["vital_signs"] = Dict([heart_rate |-> Null, blood_pressure |-> BP])
    /\ mAcc["vital_signs"] = Dict([heart_rate |-> Num(800), blood_pressure |-> BP])

-----------------------------------------------------------------------------
(* More properties of the interview, checked under Spec *)

-----------------------------------------------------------------------------
(* The signals of the deterministic classifier, checked under SpecMock *)

\* the keyword lists in the order they are tried, each with its category
KeywordLists ==
    <<[color |-> "RED", keywords |-> HIGH_ACUITY_KEYWORDS],
      [color |-> "BLUE", keywords |-> BLUE_KEYWORDS],
      [color |-> "ORANGE", keywords |-> ORANGE_KEYWORDS],
      [color |-> "YELLOW", keywords |-> YELLOW_KEYWORDS],
      [color |-> "GREEN", keywords |-> GREEN_KEYWORDS]>>

\* kw occurs in text, letter case aside
OccursIn(kw, text) ==
    \E offset \in 0..(Len(text) - Len(kw)) :
        \A j \in 1..Len(kw) : LowerChar(text[offset + j]) = LowerChar(kw[j])

\* list i has a keyword occurring in text
ListMatches(i, text) == \E kw \in KeywordLists[i].keywords : OccursIn(kw, text)

\* C23: the keyword baseline is the category of the first list, in the order
\* RED, BLUE, ORANGE, YELLOW, GREEN, that has a keyword occurring as a
\* case-insensitive substring of the complaint, and YELLOW when no list
\* matches; a complaint matching several lists gets the earliest one's.
KeywordBaseline ==
    kDone =>
        LET text == kPatient.chief_complaint.v IN
        IF \E i \in 1..5 : ListMatches(i, text)
        THEN \E i \in 1..5 :
                /\ ListMatches(i, text)
                /\ \A j \in 1..(i - 1) : ~ListMatches(j, text)
                /\ kSignals.keyword = KeywordLists[i].color
        ELSE kSignals.keyword = "YELLOW"

\* a complaint in capitals that matches the BLUE and the ORANGE list
KeywordBaselineWitness ==
    /\ kDone
    /\ ListMatches(2, kPatient.chief_complaint.v)
    /\ ListMatches(3, kPatient.chief_complaint.v)
    /\ kPatient.chief_complaint.v # Lower(kPatient.chief_complaint.v)
    /\ kSignals.keyword = "BLUE"

\* the six conditions on a VitalSigns value, in the order they are checked:
\* whether each is triggered, and its category.  Values are in tenths.
VitalConditions(vs) ==
    <<[fires |-> vs.spo2 # Null /\ vs.spo2.v < 920, color |-> "ORANGE"],
      [fires |-> /\ vs.blood_pressure # Null
                 /\ IntOf(SplitFirst(vs.blood_pressure.v)).ok
                 /\ \/ IntOf(SplitFirst(vs.blood_pressure.v)).val < 90
                    \/ IntOf(SplitFirst(vs.blood_pressure.v)).val > 200,
       color |-> "ORANGE"],
      [fires |-> vs.heart_rate # Null /\ (vs.heart_rate.v > 1200 \/ vs.heart_rate.v < 500),
       color |-> "YELLOW"],
      [fires |-> /\ vs.respiratory_rate # Null
                 /\ (vs.respiratory_rate.v > 300 \/ vs.respiratory_rate.v < 100),
       color |-> "YELLOW"],
      [fires |-> vs.temperature # Null /\ (vs.temperature.v > 400 \/ vs.temperature.v < 350),
       color |-> "YELLOW"],
      [fires |-> vs.glucose # Null /\ (vs.glucose.v < 600 \/ vs.glucose.v > 4000),
       color |-> "YELLOW"]>>

AnyFires(conditions) == \E i \in 1..Len(conditions) : conditions[i].fires

\* the category of the first condition that fires
FirstFiring(conditions) ==
    conditions[CHOOSE i \in 1..Len(conditions) :
                  conditions[i].fires /\ \A j \in 1..(i - 1) : ~conditions[j].fires].color

\* C24: the vital sign escalation is the category of the first condition that
\* fires in the order SpO2 < 92 (ORANGE), systolic < 90 or > 200 (ORANGE),
\* heart rate > 120 or < 50, respiratory rate > 30 or < 10, temperature > 40
\* or < 35, glucose < 60 or > 400 (YELLOW each); an unmeasured vital or a blood
\* pressure that is no number never fires, and there is no escalation when
\* nothing fires or the vital signs are absent.
VitalEscalationOrder ==
    kDone =>
        IF kPatient.vital_signs = Null THEN kSignals.vital_upgrade = NoUpgrade
        ELSE IF AnyFires(VitalConditions(kPatient.vital_signs))
        THEN kSignals.vital_upgrade = FirstFiring(VitalConditions(kPatient.vital_signs))
        ELSE kSignals.vital_upgrade = NoUpgrade

\* a heart rate and an SpO2 both out of range: the SpO2 decides
VitalEscalationOrderWitness ==
    /\ kDone
    /\ kPatient.vital_signs # Null
    /\ VitalConditions(kPatient.vital_signs)[1].fires
    /\ VitalConditions(kPatient.vital_signs)[3].fires
    /\ kSignals.vital_upgrade = "ORANGE"

\* the escalation of the pain scale, "none" when there is none
PainSignal(pain_scale) ==
    IF pain_scale = Null THEN "none"
    ELSE IF pain_scale.v >= 80 THEN "ORANGE"
    ELSE IF pain_scale.v >= 40 THEN "YELLOW"
    ELSE "none"

\* the three signals that are present
SignalsOf(patient, signals) ==
    {signals.keyword} \cup ({PainSignal(patient.pain_scale), signals.vital_upgrade} \ {"none"})

\* C25: the final category is the most urgent of the keyword baseline, the
\* pain escalation (ORANGE when pain >= 8, YELLOW when 4 <= pain < 8, none
\* otherwise) and the vital sign escalation: it is one of the three and its
\* priority is the least of theirs.
FinalIsMostUrgent ==
    kDone =>
        /\ kOut.result.triage_color \in SignalsOf(kPatient, kSignals)
        /\ \A c \in SignalsOf(kPatient, kSignals) :
              COLOR_PRIORITY[kOut.result.triage_color] <= COLOR_PRIORITY[c]

\* a RED keyword with a pain scale of 8 or more and an ORANGE vital sign: the
\* final category stays RED
FinalIsMostUrgentWitness ==
    /\ kDone
    /\ kSignals.keyword = "RED"
    /\ PainSignal(kPatient.pain_scale) = "ORANGE"
    /\ kSignals.vital_upgrade = "ORANGE"
    /\ kOut.result.triage_color = "RED"

\* the most urgent of a non-empty set of categories
MostUrgent(colors) ==
    CHOOSE c \in colors : \A d \in colors : COLOR_PRIORITY[c] <= COLOR_PRIORITY[d]

\* C29: the escalation the short-circuiting check returns is the most urgent
\* category among all the conditions that are triggered (none when none is);
\* so when a threshold is violated the final category is at least YELLOW, and
\* at least ORANGE when SpO2 < 92 or the systolic pressure is below 90 or
\* above 200, whatever the keyword baseline.
EscalationIsMostUrgent ==
    (kDone /\ kPatient.vital_signs # Null) =>
        LET conditions == VitalConditions(kPatient.vital_signs)
            triggered == {conditions[i].color : i \in {j \in 1..6 : conditions[j].fires}}
        IN  IF triggered = {} THEN kSignals.vital_upgrade = NoUpgrade
            ELSE /\ kSignals.vital_upgrade = MostUrgent(triggered)
                 /\ COLOR_PRIORITY[kOut.result.triage_color] <= COLOR_PRIORITY["YELLOW"]
                 /\ (conditions[1].fires \/ conditions[2].fires) =>
                       COLOR_PRIORITY[kOut.result.triage_color] <= COLOR_PRIORITY["ORANGE"]

\* a BLUE keyword baseline lifted to ORANGE by a systolic pressure below 90
EscalationIsMostUrgentWitness ==
    /\ kDone
    /\ kSignals.keyword = "BLUE"
    /\ kPatient.pain_scale = Null
    /\ kPatient.vital_signs # Null
    /\ VitalConditions(kPatient.vital_signs)[2].fires
    /\ ~VitalConditions(kPatient.vital_signs)[1].fires
    /\ kOut.result.triage_color = "ORANGE"

-----------------------------------------------------------------------------
(* The course of a pipeline run, checked under SpecPipelineRuns *)

\* the nodes executed so far, in the order they ran
NodesRun == [i \in 1..Len(gLog) |-> gLog[i].node]

\* the nodes a run executes
ExpectedNodes ==
    IF gInput.image_bytes \in {"None", ""}
    THEN <<"run_triage", "run_documentation">>
    ELSE <<"run_image_analysis", "run_triage", "run_documentation">>

\* at every moment of a run: the nodes executed are the first of the expected
\* ones, all of them once the run has ended, and the triage stage that follows
\* a successful image analysis has received the patient data with
\* image_findings set to the summary of the findings
StagesInOrder ==
    /\ Len(NodesRun) <= Len(ExpectedNodes)
    /\ NodesRun = SubSeq(ExpectedNodes, 1, Len(NodesRun))
    /\ gNode = "END" => NodesRun = ExpectedNodes
    /\ \A i \in 2..Len(gLog) :
          (gLog[i].node = "run_triage" /\ ~gLog[i - 1].failed) =>
              /\ "image_findings" \in DOMAIN gState
              /\ gLog[i].patient_data =
                    [gInput.patient_data EXCEPT
                        !.image_findings = to_triage_summary(gState["image_findings"])]

\* C26: in every run the stages execute in the order image analysis, triage,
\* documentation and the run terminates; image analysis runs if and only if
\* image_bytes is non-empty, triage and documentation run exactly once each,
\* and after a successful image analysis the triage stage receives patient
\* data whose image_findings is the summary of the findings.
PipelineRunsInOrder == [](gNode # "idle" => StagesInOrder) /\ <>(gNode = "END")

\* a run with an image has ended: the image was analysed, and triage received
\* a summary that names suspected conditions
PipelineRunsInOrderWitness ==
    /\ gNode = "END"
    /\ Len(gLog) = 3
    /\ ~gLog[1].failed
    /\ gLog[2].patient_data # gInput.patient_data
    /\ \E i \in 1..Len(gLog[2].patient_data.image_findings.v) :
          gLog[2].patient_data.image_findings.v[i].part = "Suspected"

-----------------------------------------------------------------------------
(* The fallback of classify inside the pipeline, checked under SpecPipeline *)

\* the text-generation collaborator failed for the triage stage
TriageModelFailed == \E i \in 1..Len(gModel) : gModel[i].node = "run_triage" /\ ~gModel[i].ok

-----------------------------------------------------------------------------
(* Properties of a whole interview, checked under SpecInterview and, for    *)
(* its completion, SpecInterviewAnswered                                    *)

\* C27: in every state reached from start_interview() by successful
\* process_answer calls the transcript alternates agent and patient turns,
\* beginning with the opening question; it has 2*turn_count + 1 entries while
\* IN_PROGRESS and 2*turn_count once COMPLETE; while IN_PROGRESS the pending
\* question is non-null and is the content of the last entry, an agent turn;
\* once COMPLETE the pending question is null and the last entry is the
\* patient's answer.
TranscriptAlternates ==
    LET conversation == state.conversation IN
    /\ Len(conversation) >= 1
    /\ conversation[1] = [role |-> "agent", content |-> FirstQuestion]
    /\ \A i \in 1..Len(conversation) :
          conversation[i].role = IF i % 2 = 1 THEN "agent" ELSE "patient"
    /\ state.status \in {"IN_PROGRESS", "COMPLETE"}
    /\ state.status = "IN_PROGRESS" =>
          /\ Len(conversation) = 2 * state.turn_count + 1
          /\ state.pending_question # Null
          /\ conversation[Len(conversation)] =
                [role |-> "agent", content |-> state.pending_question]
    /\ state.status = "COMPLETE" =>
          /\ Len(conversation) = 2 * state.turn_count
          /\ state.pending_question = Null
          /\ conversation[Len(conversation)].role = "patient"
          /\ conversation[Len(conversation)].content \in InterviewAnswers

\* an interview completed by the collaborator's word at its third turn, after
\* a question of the collaborator's and a fallback question
TranscriptAlternatesWitness ==
    /\ state.status = "COMPLETE"
    /\ state.turn_count = 3
    /\ Len(state.conversation) = 6
    /\ state.conversation[3].content # state.conversation[5].content

\* a step changes turn_count only by a call that returns, and then by one
TurnCountStep ==
    state'.turn_count = state.turn_count + (IF state' # state THEN 1 ELSE 0)

\* C28: in every state reached from start_interview() turn_count is at most
\* 15 and a successful call increases it by exactly 1; an interview in
\* progress has had fewer than 15 successful calls; and when the caller keeps
\* answering and the collaborator keeps returning (SpecInterviewAnswered),
\* the interview reaches COMPLETE, whatever the collaborator returns.
InterviewCompletes ==
    /\ [](state.turn_count <= MAX_TURNS)
    /\ [](state.status = "IN_PROGRESS" => state.turn_count < MAX_TURNS)
    /\ [][TurnCountStep]_vars
    /\ <>(state.status = "COMPLETE")

====
